---- MODULE Spec2Model ----
(***************************************************************************)
(* bookworm: PDF -> ebook conversion.                                      *)
(*                                                                         *)
(* The model covers ConvertCmd::exec (src/bin/cmd/convert.rs) and the     *)
(* PdfProcessor it drives (src/convert/pdf.rs): construction, metadata,   *)
(* the extraction fallback chain, the content stream parser, the page      *)
(* splitters and the chapter detector; and MetaInfContainer::new           *)
(* (src/epub/container.rs).                                                *)
(*                                                                         *)
(* Text is a sequence of one-character strings.  For the chapter detector  *)
(* the characters are                                                      *)
(*   "H"   a character such that a trimmed line beginning with it matches  *)
(*         the configured chapter_regex (an anchored pattern such as the   *)
(*         default (?i)^(chapter|ch\.?)\s*\d+),                            *)
(*   "a"   any other non-blank character,                                  *)
(*   " ", "\t", "\r", "\n", "\f"  white space ("\f" is the form feed).       *)
(* These are ASCII, so String::len() is the sequence's length; where the   *)
(* length in bytes matters, "U+00E9" and "U+00A0" are characters of two    *)
(* bytes (ByteLen).                                                        *)
(***************************************************************************)
EXTENDS Integers, Sequences, FiniteSets, TLC

(* ------------------------------ bounds -------------------------------- *)

\* longest page sequence handed to detect_chapters directly
MaxPages == 5

\* largest max_pages_per_chapter tried
MaxSplit == 2

\* longest page sequence an extraction yields inside ConvertCmd::exec
ExecMaxPages == 2

\* number of leading lines of a page searched for a heading: lines.iter().take(10)
HeadLines == 10

\* is_likely_readable_text: the longest of the texts taken from an alphabet
MaxReadLen == 3

\* clean_pdf_text_content: the most escapes and plain characters of a literal
MaxTokens == 3

\* MetaInfContainer::new: the most events the reader yields
MaxEvents == 3

\* split_by_structural_markers: the most markers of a text
MaxMarkers == 3

\* parse_pdf_content_stream: the most operations of the first text block
MaxOps == 3

(* ------------------------------- text --------------------------------- *)

WS == {" ", "\t", "\r", "\n", "\f", "U+00A0"}

Min(S) == CHOOSE x \in S : \A y \in S : x <= y

Max(S) == CHOOSE x \in S : \A y \in S : x >= y

\* str::trim: from the first to the last character that is not white space
Trim(s) ==
    IF \A i \in 1..Len(s) : s[i] \in WS THEN <<>>
    ELSE SubSeq(s, Min({i \in 1..Len(s) : s[i] \notin WS}),
                   Len(s) + 1 - Min({k \in 1..Len(s) : s[Len(s) + 1 - k] \notin WS}))

RECURSIVE KeepIdx(_, _, _)
\* the characters of s at the indices in K, from index i on
KeepIdx(s, K, i) ==
    IF i > Len(s) THEN <<>>
    ELSE (IF i \in K THEN <<s[i]>> ELSE <<>>) \o KeepIdx(s, K, i + 1)

\* the pieces of s between the indices at, which are in increasing order
pieces_between(s, at) ==
    [k \in 1..(Len(at) + 1) |->
        SubSeq(s, IF k = 1 THEN 1 ELSE at[k - 1] + 1,
                  IF k = Len(at) + 1 THEN Len(s) ELSE at[k] - 1)]

\* str::split(sep): the pieces between the separators, empty pieces included
Split(s, sep) ==
    pieces_between(s, SelectSeq([i \in 1..Len(s) |-> i], LAMBDA i : s[i] = sep))

\* str::lines: split at "\n", a trailing "\r" of a line removed, no final empty line
Lines(s) ==
    LET parts == Split(s, "\n")
        kept  == IF parts[Len(parts)] = <<>> THEN SubSeq(parts, 1, Len(parts) - 1) ELSE parts
        strip(l) == IF l # <<>> /\ l[Len(l)] = "\r" THEN SubSeq(l, 1, Len(l) - 1) ELSE l
    IN  [i \in 1..Len(kept) |-> strip(kept[i])]

RECURSIVE join_range(_, _, _, _)
\* the strings lo..hi of ss with sep between them, lo <= hi (by halves)
join_range(ss, sep, lo, hi) ==
    IF lo = hi THEN ss[lo]
    ELSE join_range(ss, sep, lo, (lo + hi) \div 2) \o sep
             \o join_range(ss, sep, (lo + hi) \div 2 + 1, hi)

\* [String]::join(sep)
Join(ss, sep) == IF ss = <<>> THEN <<>> ELSE join_range(ss, sep, 1, Len(ss))

RECURSIVE CollapseNewlines(_, _)
\* replace_all of \n\s*\n\s*\n+ by "\n\n", from index i on: a match starts at a
\* newline whose white-space run holds at least three newlines and ends at the
\* run's last newline (leftmost match, greedy quantifiers)
CollapseNewlines(s, i) ==
    IF i > Len(s) THEN <<>>
    ELSE IF s[i] # "\n" THEN <<s[i]>> \o CollapseNewlines(s, i + 1)
    ELSE LET stop == {j \in i..Len(s) : s[j] \notin WS}
             last == IF stop = {} THEN Len(s) ELSE Min(stop) - 1
             nls  == {j \in i..last : s[j] = "\n"}
         IN  IF Cardinality(nls) >= 3
             THEN <<"\n", "\n">> \o CollapseNewlines(s, Max(nls) + 1)
             ELSE <<s[i]>> \o CollapseNewlines(s, i + 1)

\* replace_all of [ \t]+ by " "
CollapseBlanks(s) ==
    LET blank(i) == s[i] \in {" ", "\t"}
        keep == {i \in 1..Len(s) : ~(blank(i) /\ i > 1 /\ blank(i - 1))}
        t == KeepIdx(s, keep, 1)
    IN  [i \in 1..Len(t) |-> IF t[i] = "\t" THEN " " ELSE t[i]]

\* replace_all of "\n " by "\n"
StripLineLead(s) ==
    KeepIdx(s, {i \in 1..Len(s) : ~(s[i] = " " /\ i > 1 /\ s[i - 1] = "\n")}, 1)

\* PdfProcessor::clean_text_content
clean_text_content(clean, text) ==
    IF ~clean THEN text
    ELSE LET t1 == SelectSeq(text, LAMBDA c : c # "\r")
             t2 == CollapseNewlines(t1, 1)
             t3 == CollapseBlanks(t2)
             t4 == StripLineLead(t3)
         IN  Trim(t4)

\* self.chapter_regex.is_match(line.trim())
is_match(line) ==
    LET t == Trim(line) IN t # <<>> /\ t[1] = "H"


\* usize::saturating_sub
saturating_sub(a, b) == IF a >= b THEN a - b ELSE 0

RECURSIVE Dec(_)
\* Display of a usize: its decimal digits
Dec(n) ==
    LET digit == <<"0", "1", "2", "3", "4", "5", "6", "7", "8", "9">>
    IN  IF n < 10 THEN <<digit[n + 1]>> ELSE Dec(n \div 10) \o <<digit[(n % 10) + 1]>>

\* format!("{} (Part {})", title, n)
PartTitle(title, n) ==
    title \o <<" ", "(", "P", "a", "r", "t", " ">> \o Dec(n) \o <<")">>

\* "Full Document".to_string()
FullDocument == <<"F", "u", "l", "l", " ", "D", "o", "c", "u", "m", "e", "n", "t">>

(* ------------------------------ inputs -------------------------------- *)

\* page texts: a heading followed by content; plain text; a plain line with a
\* stray blank, then a heading on line two, a blank line and content; a plain
\* line, ten empty lines and a heading (on line twelve as extracted, on line
\* three once cleaned)
PageTexts ==
    { <<"H", "\n", "a", "a">>,
      <<"a", "a">>,
      <<" ", "a", "\n", "H", "\n", "\n", "a">>,
      <<"a", "\n", "\n", "\n", "\n", "\n", "\n", "\n", "\n", "\n", "\n", "\n", "H">> }

\* values of min_chapter_length
MinLengths == {0, 2, 6}

RECURSIVE SeqsUpTo(_, _)
\* the sequences over S of length at most n
SeqsUpTo(S, n) ==
    IF n = 0 THEN {<<>>}
    ELSE LET shorter == SeqsUpTo(S, n - 1)
         IN  shorter \cup {Append(q, x) : q \in {r \in shorter : Len(r) = n - 1}, x \in S}

(* ------------------------------- state -------------------------------- *)

VARIABLES
    cmd,              \* the ConvertCmd being executed, or NoCmd
    pdf,              \* the input file as the libraries see it, or NoPdf
    processor,        \* the PdfProcessor, or None before PdfProcessor::new
    pc,               \* position in ConvertCmd::exec / detect_chapters
    pages,            \* Vec<String> handed to detect_chapters
    page_idx,         \* detect_chapters: index of the next page of the loop
    chapters,         \* detect_chapters: Vec<Chapter>
    current_chapter,  \* detect_chapters: Option<(title, content, start_page)>
    log,              \* the calls made so far, in order, each with what it returned
    generated,        \* the generator call made: Some([generator, chapters]) or None
    result,           \* what ConvertCmd::exec returned, or Running
    frame             \* the activation of a function called on its own: its
                      \* arguments, locals and return value; None otherwise

vars == <<cmd, pdf, processor, pc, pages, page_idx, chapters, current_chapter,
          log, generated, result, frame>>

None == <<>>

Some(x) == <<x>>

NoCmd == [kind |-> "none"]

NoPdf == [kind |-> "none"]

Running == [kind |-> "running"]

\* a call and what it returned ("-" while it has not returned)
Ev(call, ret) == [call |-> call, ret |-> ret]

Calls(call) == {i \in 1..Len(log) : log[i].call = call}

(* -------------------------- detect_chapters --------------------------- *)

\* mutant of heading_line: the whole page is searched (no .take(10))
heading_line_any(lines) ==
    LET hits == {i \in 1..Len(lines) : is_match(lines[i])}
    IN  IF hits = {} THEN 0 ELSE Min(hits)

\* mutant of heading_line: the last of the first 10 lines that matches
heading_line_last(lines) ==
    LET hits == {i \in 1..Len(lines) : i <= HeadLines /\ is_match(lines[i])}
    IN  IF hits = {} THEN 0 ELSE Max(hits)

\* the 1-based index of the first of the first 10 lines that matches, 0 if none
heading_line(lines) ==
    LET hits == {i \in 1..Len(lines) : i <= HeadLines /\ is_match(lines[i])}
    IN  IF hits = {} THEN 0 ELSE Min(hits)

\* a chapter is pushed at a heading or at the end only if its raw content is
\* at least min_chapter_length long
long_enough(content) == Len(content) >= processor.min_chapter_length

\* mutant of heading_page_end: the page of the heading itself
heading_page_end_same(p) == p

\* page_end of a chapter finalized by the heading found on page p
heading_page_end(p) == saturating_sub(p, 1)

\* the max-pages condition: page_idx - start_page >= self.max_pages_per_chapter
\* (start_page <= page_idx whenever it is evaluated, so the usize difference is
\* the integer difference)
over_page_limit(p, start_page) ==
    /\ processor.max_pages_per_chapter > 0
    /\ p - start_page >= processor.max_pages_per_chapter

\* mutant of reopen_start: the chapter is reopened on the page of the split
reopen_start_same(p) == p

\* mutant of reopen_start: the chapter is reopened two pages further
reopen_start_skip(p) == p + 2

\* start_page of the chapter reopened by a forced split on page p
reopen_start(p) == p + 1

clean(text) == clean_text_content(processor.clean_text, text)

\* Chapter { title, content: clean_text_content(content), page_start, page_end }
Chapter(title, content, page_start, page_end) ==
    [title |-> title, content |-> clean(content),
     page_start |-> page_start, page_end |-> page_end]

\* the heading branch, first half: finalize the previous chapter
finalize_previous(chs, cur, p) ==
    IF cur # None /\ long_enough(cur[1].content)
    THEN Append(chs, Chapter(cur[1].title, cur[1].content,
                             cur[1].start_page, heading_page_end(p)))
    ELSE chs

\* mutant of start_chapter: start_page is taken from line_idx, not page_idx
start_chapter_line_idx(lines, h, p) ==
    Some([title |-> Trim(lines[h]),
          content |-> IF h + 1 <= Len(lines)
                      THEN Join(SubSeq(lines, h + 1, Len(lines)), <<"\n">>)
                      ELSE <<>>,
          start_page |-> h - 1])

\* the heading branch, second half: start the chapter of the heading lines[h]
start_chapter(lines, h, p) ==
    Some([title |-> Trim(lines[h]),
          content |-> IF h + 1 <= Len(lines)
                      THEN Join(SubSeq(lines, h + 1, Len(lines)), <<"\n">>)
                      ELSE <<>>,
          start_page |-> p])

\* mutant of append_page: with no chapter open the page opens an untitled one
append_page_opens(cur, cleaned_text) ==
    IF cur # None
    THEN Some([cur[1] EXCEPT !.content =
                   (IF @ # <<>> THEN @ \o <<"\n">> ELSE @) \o cleaned_text])
    ELSE Some([title |-> <<>>, content |-> cleaned_text, start_page |-> 0])

\* no heading on the page: add the page to the open chapter, if any
append_page(cur, cleaned_text) ==
    IF cur # None
    THEN Some([cur[1] EXCEPT !.content =
                   (IF @ # <<>> THEN @ \o <<"\n">> ELSE @) \o cleaned_text])
    ELSE cur

\* one iteration of the loop over pages.  (\E x \in {e} binds x to the value e.)
ScanPage ==
    /\ pc = "scan"
    /\ page_idx < Len(pages)
    /\ \E cleaned_text \in {clean(pages[page_idx + 1])} :
       \E lines \in {Lines(cleaned_text)} :
       \E h \in {heading_line(lines)} :
       \E chapters1 \in {IF h # 0
                         THEN finalize_previous(chapters, current_chapter, page_idx)
                         ELSE chapters} :
       \E current1 \in {IF h # 0
                        THEN start_chapter(lines, h, page_idx)
                        ELSE append_page(current_chapter, cleaned_text)} :
       \E split \in {/\ current1 # None
                     /\ over_page_limit(page_idx, current1[1].start_page)} :
       \E chapters2 \in {IF split
                         THEN Append(chapters1,
                                     Chapter(PartTitle(current1[1].title, Len(chapters1) + 1),
                                             current1[1].content,
                                             current1[1].start_page,
                                             page_idx))
                         ELSE chapters1} :
           /\ chapters' = chapters2
           /\ current_chapter' =
                  IF split
                  THEN Some([title |-> PartTitle(current1[1].title, Len(chapters2) + 1),
                             content |-> <<>>,
                             start_page |-> reopen_start(page_idx)])
                  ELSE current1
    /\ page_idx' = page_idx + 1
    /\ UNCHANGED <<frame, cmd, pdf, processor, pc, pages, log, generated, result>>

\* finalize the last chapter
finalize_last(chs, cur, last_page) ==
    IF cur # None /\ long_enough(cur[1].content)
    THEN Append(chs, Chapter(cur[1].title, cur[1].content, cur[1].start_page, last_page))
    ELSE chs

\* mutant of full_document: the chapter is added whether or not chs is empty
full_document_always(chs, ps) ==
    LET full_content == Join(ps, <<"\n", "\n">>)
    IN  IF Len(full_content) >= processor.min_chapter_length
        THEN Append(chs, Chapter(FullDocument, full_content, 0, saturating_sub(Len(ps), 1)))
        ELSE chs

\* if no chapters detected, create one chapter with all content
full_document(chs, ps) ==
    IF chs = <<>>
    THEN LET full_content == Join(ps, <<"\n", "\n">>)
         IN  IF Len(full_content) >= processor.min_chapter_length
             THEN <<Chapter(FullDocument, full_content, 0, saturating_sub(Len(ps), 1))>>
             ELSE chs
    ELSE chs

\* after the loop: finalize the last chapter, fall back to "Full Document", return
FinishDetect ==
    /\ pc = "scan"
    /\ page_idx = Len(pages)
    /\ chapters' = full_document(finalize_last(chapters, current_chapter,
                                               saturating_sub(Len(pages), 1)),
                                 pages)
    /\ current_chapter' = None
    /\ pc' = "detected"
    /\ UNCHANGED <<frame, cmd, pdf, processor, pages, page_idx, log, generated, result>>

\* detect_chapters called on a PdfProcessor with any configuration and pages
InitDetect ==
    /\ cmd = NoCmd
    /\ pdf = NoPdf
    /\ processor \in [min_chapter_length : MinLengths,
                      max_pages_per_chapter : 0..MaxSplit,
                      clean_text : BOOLEAN]
    /\ pages \in SeqsUpTo(PageTexts, MaxPages)
    /\ pc = "scan"
    /\ page_idx = 0
    /\ chapters = <<>>
    /\ current_chapter = None
    /\ log = <<Ev("detect_chapters", "-")>>
    /\ generated = None
    /\ result = Running
    /\ frame = None

NextDetect == ScanPage \/ FinishDetect

SpecDetect == InitDetect /\ [][NextDetect]_vars

(* ------------------------------ regex --------------------------------- *)

Digits == {"0", "1", "2", "3", "4", "5", "6", "7", "8", "9"}

LowerCase ==
    <<"a", "b", "c", "d", "e", "f", "g", "h", "i", "j", "k", "l", "m",
      "n", "o", "p", "q", "r", "s", "t", "u", "v", "w", "x", "y", "z">>

UpperCase ==
    <<"A", "B", "C", "D", "E", "F", "G", "H", "I", "J", "K", "L", "M",
      "N", "O", "P", "Q", "R", "S", "T", "U", "V", "W", "X", "Y", "Z">>

Letters == {LowerCase[k] : k \in 1..26} \cup {UpperCase[k] : k \in 1..26}

\* the characters a literal c of a (?i) pattern matches
Ci(c) ==
    IF \E k \in 1..26 : LowerCase[k] = c
    THEN {c, UpperCase[CHOOSE k \in 1..26 : LowerCase[k] = c]}
    ELSE {c}

\* pattern items: a character class taken once, one or more times (+), zero or
\* more times (*), or at most once (?)
One(cls) == [cls |-> cls, q |-> "1"]

Plus(cls) == [cls |-> cls, q |-> "+"]

Star(cls) == [cls |-> cls, q |-> "*"]

Opt(cls) == [cls |-> cls, q |-> "?"]

\* a literal word under (?i)
Word(w) == [i \in 1..Len(w) |-> One(Ci(w[i]))]

\* a pattern: its alternatives in order, each a sequence of items, and whether
\* it is anchored at the start (^) and at the end ($) of the text
Regex(alts, bol, eol) == [alts |-> alts, bol |-> bol, eol |-> eol]

\* the index after the longest run of characters of cls that starts at index i
RunEnd(s, i, cls) ==
    Min({j \in i..(Len(s) + 1) :
             /\ (j = Len(s) + 1 \/ s[j] \notin cls)
             /\ \A k \in i..(j - 1) : s[k] \in cls})

RECURSIVE MatchItems(_, _, _, _)
\* the index after the match of items k.. at index i of s, 0 if there is none;
\* quantifiers are greedy (in every pattern below a quantified class and the
\* item after it are disjoint, so the greedy run is the only candidate)
MatchItems(s, i, items, k) ==
    IF k > Len(items) THEN i
    ELSE CASE items[k].q = "1" ->
                  IF i <= Len(s) /\ s[i] \in items[k].cls
                  THEN MatchItems(s, i + 1, items, k + 1) ELSE 0
           [] items[k].q = "+" ->
                  IF i <= Len(s) /\ s[i] \in items[k].cls
                  THEN MatchItems(s, RunEnd(s, i, items[k].cls), items, k + 1) ELSE 0
           [] items[k].q = "*" ->
                  MatchItems(s, RunEnd(s, i, items[k].cls), items, k + 1)
           [] items[k].q = "?" ->
                  MatchItems(s, IF i <= Len(s) /\ s[i] \in items[k].cls THEN i + 1 ELSE i,
                             items, k + 1)

RECURSIVE MatchAlts(_, _, _, _)
\* the index after the match of re that starts at index i, trying alternatives
\* a.. in order; 0 if none matches
MatchAlts(s, i, re, a) ==
    IF a > Len(re.alts) THEN 0
    ELSE IF /\ MatchItems(s, i, re.alts[a], 1) > 0
            /\ re.eol => MatchItems(s, i, re.alts[a], 1) = Len(s) + 1
         THEN MatchItems(s, i, re.alts[a], 1)
         ELSE MatchAlts(s, i, re, a + 1)

\* the index after the match of re that starts at index i of s, 0 if none
MatchAt(s, i, re) ==
    IF re.bol /\ i # 1 THEN 0 ELSE MatchAlts(s, i, re, 1)

RECURSIVE find_from(_, _, _)
\* Regex::find_iter: the leftmost non-overlapping matches from index from on,
\* each as [start, end) with 1-based start
find_from(s, re, starts) ==
    IF starts = {} THEN <<>>
    ELSE <<[start |-> Min(starts), end |-> MatchAt(s, Min(starts), re)]>>
             \o find_from(s, re, {i \in starts : i >= MatchAt(s, Min(starts), re)})

find_iter(s, re) == find_from(s, re, {i \in 1..Len(s) : MatchAt(s, i, re) > 0})

\* Regex::is_match
regex_is_match(re, s) == \E i \in 1..Len(s) : MatchAt(s, i, re) > 0

\* Regex::split: the pieces of s between the matches, empty pieces included
regex_pieces(s, ms) ==
    [k \in 1..(Len(ms) + 1) |->
        SubSeq(s, IF k = 1 THEN 1 ELSE ms[k - 1].end,
                  IF k = Len(ms) + 1 THEN Len(s) ELSE ms[k].start - 1)]

regex_split(re, s) == regex_pieces(s, find_iter(s, re))

(* --------------------------- page segmentation ------------------------ *)

\* .map(|s| s.trim().to_string()).filter(|s| !s.is_empty()).collect()
trim_and_filter(parts) ==
    SelectSeq([i \in 1..Len(parts) |-> Trim(parts[i])], LAMBDA t : t # <<>>)

\* full_text.contains(c)
contains(full_text, c) == \E i \in 1..Len(full_text) : full_text[i] = c

\* mutant of form_feed_pages: the pieces are not trimmed
form_feed_pages_untrimmed(full_text) ==
    SelectSeq(Split(full_text, "\f"), LAMBDA t : t # <<>>)

\* method 1: the pieces between form feeds
form_feed_pages(full_text) == trim_and_filter(Split(full_text, "\f"))

\* (?i)page\s+\d+   (?i)- \d+ -   (?i)^\d+\s*$   (?i)page\s+\d+\s+of\s+\d+
page_indicators ==
    << Regex(<< Word(<<"p", "a", "g", "e">>) \o <<Plus(WS), Plus(Digits)>> >>, FALSE, FALSE),
       Regex(<< Word(<<"-", " ">>) \o <<Plus(Digits)>> \o Word(<<" ", "-">>) >>, FALSE, FALSE),
       Regex(<< <<Plus(Digits), Star(WS)>> >>, TRUE, TRUE),
       Regex(<< Word(<<"p", "a", "g", "e">>) \o <<Plus(WS), Plus(Digits), Plus(WS)>>
                    \o Word(<<"o", "f">>) \o <<Plus(WS), Plus(Digits)>> >>, FALSE, FALSE) >>

\* (?i)^(chapter|ch\.?)\s+\d+   (?i)^(section|sec\.?)\s+\d+
\* (?i)^(part|pt\.?)\s+\d+      (?i)^\d+\.\s+[A-Z]
structure_patterns ==
    << Regex(<< Word(<<"c", "h", "a", "p", "t", "e", "r">>) \o <<Plus(WS), Plus(Digits)>>,
                Word(<<"c", "h">>) \o <<Opt({"."}), Plus(WS), Plus(Digits)>> >>, TRUE, FALSE),
       Regex(<< Word(<<"s", "e", "c", "t", "i", "o", "n">>) \o <<Plus(WS), Plus(Digits)>>,
                Word(<<"s", "e", "c">>) \o <<Opt({"."}), Plus(WS), Plus(Digits)>> >>, TRUE, FALSE),
       Regex(<< Word(<<"p", "a", "r", "t">>) \o <<Plus(WS), Plus(Digits)>>,
                Word(<<"p", "t">>) \o <<Opt({"."}), Plus(WS), Plus(Digits)>> >>, TRUE, FALSE),
       Regex(<< <<Plus(Digits), One({"."}), Plus(WS), One(Letters)>> >>, TRUE, FALSE) >>

\* split_by_pattern
split_by_pattern(text, re) == trim_and_filter(regex_split(re, text))

\* one step of the page_indicators loop: return pages if there are more than one
indicator_step(rest, ps) == IF Len(ps) > 1 THEN Some(ps) ELSE rest

RECURSIVE indicator_pages(_, _)
\* method 2, from pattern k on: Some(pages) of the first pattern that matches
\* and splits the text into more than one page, None if there is no such pattern
indicator_pages(full_text, k) ==
    IF k > Len(page_indicators) THEN None
    ELSE IF regex_is_match(page_indicators[k], full_text)
         THEN indicator_step(indicator_pages(full_text, k + 1),
                             split_by_pattern(full_text, page_indicators[k]))
         ELSE indicator_pages(full_text, k + 1)

\* mutant of split_by_structural_markers: last_end is pushed for the first
\* match too, so the text before it is a segment
split_by_structural_markers_from_start(text, matches) ==
    IF matches = <<>> THEN trim_and_filter(IF text = <<>> THEN <<>> ELSE <<text>>)
    ELSE trim_and_filter(
             <<SubSeq(text, 1, matches[1].start - 1)>> \o
             [i \in 1..Len(matches) |->
                 SubSeq(text, matches[i].start,
                        IF i < Len(matches) THEN matches[i + 1].start - 1 ELSE Len(text))])

\* split_by_structural_markers: the text from each match's start to the next
\* match's start, and from the last match's start to the end
split_by_structural_markers(text, matches) ==
    IF matches = <<>> THEN trim_and_filter(IF text = <<>> THEN <<>> ELSE <<text>>)
    ELSE trim_and_filter(
             [i \in 1..Len(matches) |->
                 SubSeq(text, matches[i].start,
                        IF i < Len(matches) THEN matches[i + 1].start - 1 ELSE Len(text))])

\* one step of the structure_patterns loop
structure_step(full_text, rest, matches) ==
    IF Len(matches) > 2 /\ Len(split_by_structural_markers(full_text, matches)) > 1
    THEN Some(split_by_structural_markers(full_text, matches))
    ELSE rest

RECURSIVE structure_pages(_, _)
\* method 3, from pattern k on
structure_pages(full_text, k) ==
    IF k > Len(structure_patterns) THEN None
    ELSE structure_step(full_text, structure_pages(full_text, k + 1),
                        find_iter(full_text, structure_patterns[k]))

\* characters whose UTF-8 encoding takes two bytes: U+00E9 (e with acute) and
\* U+00A0 (no-break space); every other character of the model takes one
TwoByte == {"U+00E9", "U+00A0"}

\* str::len: the length in bytes
ByteLen(s) == Len(s) + Cardinality({i \in 1..Len(s) : s[i] \in TwoByte})

estimated_lines_per_page == 40

min_lines == 10

short_line == 20

\* line_count >= estimated_lines_per_page
\*     && (line.trim().is_empty() || line.trim().len() < 20)
natural_break(line, line_count) ==
    /\ line_count >= estimated_lines_per_page
    /\ (Trim(line) = <<>> \/ ByteLen(Trim(line)) < short_line)

\* the line at which the page that starts at line from is pushed inside the for
\* loop: current_page holds the lines from..k and line_count is k - from + 1
\* when line k has been pushed, and the first k whose line makes a natural
\* break or whose count exceeds twice the estimate ends the page; 0 if the
\* loop ends before
page_break_of(breaks) == IF breaks = {} THEN 0 ELSE Min(breaks)

page_break(lines, from) ==
    page_break_of({k \in from..Len(lines) :
                       \/ natural_break(lines[k], k - from + 1)
                       \/ k - from + 1 > estimated_lines_per_page * 2})

RECURSIVE content_loop(_, _, _)
\* the for loop of content_based_page_splitting from line from on, where
\* current_page is empty, given the line k at which its next page is pushed,
\* and the push of the remaining lines after the loop
content_from(lines, from, ps, k) ==
    IF k = 0
    THEN IF from <= Len(lines)
         THEN Append(ps, Join(SubSeq(lines, from, Len(lines)), <<"\n">>)) ELSE ps
    ELSE content_loop(lines, k + 1, Append(ps, Join(SubSeq(lines, from, k), <<"\n">>)))

content_loop(lines, from, ps) == content_from(lines, from, ps, page_break(lines, from))

\* content_based_page_splitting, given text.lines()
content_pages(text, lines) ==
    IF Len(lines) < min_lines THEN <<text>> ELSE content_loop(lines, 1, <<>>)

\* content_based_page_splitting
content_based_page_splitting(text) == content_pages(text, Lines(text))

target_chars_per_page == 2500

max_chars_per_page == 4000

paragraph_window == 500

sentence_window == 200

\* text.chars().nth(n): the n-th character, counted from 0; None past the end
nth(text, n) == IF n < Len(text) THEN Some(text[n + 1]) ELSE None

\* text.chars().nth(check_pos) == Some('\n')
\*     && text.chars().nth(check_pos + 1) == Some('\n')
paragraph_break_at(text, check_pos) ==
    nth(text, check_pos) = Some("\n") /\ nth(text, check_pos + 1) = Some("\n")

\* the forward probe of the paragraph loop at this offset
probe_forward(text, len, end_pos, offset) ==
    end_pos + offset < len /\ paragraph_break_at(text, end_pos + offset)

\* the backward probe of the paragraph loop at this offset
probe_backward(text, end_pos, offset) ==
    end_pos > offset /\ paragraph_break_at(text, end_pos - offset)

\* end_pos after the loop over the offsets, given the offsets at which a probe
\* hits: the first hit breaks the loop, the forward probe is tried first
paragraph_cut(text, len, end_pos, hits) ==
    IF hits = {} THEN end_pos
    ELSE IF probe_forward(text, len, end_pos, Min(hits))
         THEN end_pos + Min(hits) ELSE end_pos - Min(hits)

\* for offset in 0..=500 { forward probe; backward probe }
find_paragraph_break(text, len, end_pos) ==
    paragraph_cut(text, len, end_pos,
                  {offset \in 0..paragraph_window :
                       \/ probe_forward(text, len, end_pos, offset)
                       \/ probe_backward(text, end_pos, offset)})

\* matches!(char_at_pos, Some('.') | Some('!') | Some('?'))
\*     && let Some(next_char) = text.chars().nth(check_pos + 1)
\*     && next_char.is_whitespace()
sentence_end_at(text, check_pos) ==
    /\ nth(text, check_pos) \in {Some("."), Some("!"), Some("?")}
    /\ nth(text, check_pos + 1) # None
    /\ nth(text, check_pos + 1)[1] \in WS

\* end_pos after the sentence loop, given the offsets at which it hits
sentence_cut(end_pos, hits) == IF hits = {} THEN end_pos ELSE end_pos + Min(hits) + 1

\* for offset in 0..=200 { if end_pos + offset < text.len() { ... } }
find_sentence_end(text, len, end_pos) ==
    sentence_cut(end_pos, {offset \in 0..sentence_window :
                               /\ end_pos + offset < len
                               /\ sentence_end_at(text, end_pos + offset)})

\* if end_pos == current_pos + target_chars_per_page { sentence search }
after_paragraph_search(text, len, current_pos, end_pos) ==
    IF end_pos = current_pos + target_chars_per_page
    THEN find_sentence_end(text, len, end_pos) ELSE end_pos

\* if end_pos < text.len() { paragraph search; sentence search }
find_break_point(text, len, current_pos, end_pos) ==
    IF end_pos < len
    THEN after_paragraph_search(text, len, current_pos,
                                find_paragraph_break(text, len, end_pos))
    ELSE end_pos

\* end_pos of one iteration: min(current_pos + target, len), the break point
\* search, then min(end_pos, current_pos + max_chars_per_page)
end_of_page(text, len, current_pos) ==
    Min({find_break_point(text, len, current_pos,
                          Min({current_pos + target_chars_per_page, len})),
         current_pos + max_chars_per_page})

\* the indices of the two-byte characters of the text
wide_chars(text) == {i \in 1..Len(text) : text[i] \in TwoByte}

\* the byte offset at which character i (1-based) starts
byte_offset(wide, i) == i - 1 + Cardinality({w \in wide : w < i})

\* the 1-based index of the character that starts at byte offset b (Len + 1
\* for the end of the text), 0 if b is not a character boundary
char_at_byte(text, wide, b) ==
    IF \E i \in 1..(Len(text) + 1) : i <= b + 1 /\ byte_offset(wide, i) = b
    THEN CHOOSE i \in 1..(Len(text) + 1) : i <= b + 1 /\ byte_offset(wide, i) = b
    ELSE 0

\* text.is_char_boundary(b)
is_char_boundary(text, b) == char_at_byte(text, wide_chars(text), b) # 0

\* &text[a..b] for character boundaries a <= b
slice_chars(text, wide, a, b) ==
    SubSeq(text, char_at_byte(text, wide, a), char_at_byte(text, wide, b) - 1)

\* mutant of page_text: the page runs to the end of the text
page_text_to_end(text, len, current_pos, end_pos) ==
    slice_chars(text, wide_chars(text), current_pos, len)

\* let page_text = &text[current_pos..end_pos]
page_text(text, len, current_pos, end_pos) ==
    slice_chars(text, wide_chars(text), current_pos, end_pos)

\* if !page_text.trim().is_empty() { pages.push(page_text.trim().to_string()) }
push_page(ps, trimmed) == IF trimmed # <<>> THEN Append(ps, trimmed) ELSE ps

\* the rest of an iteration once end_pos is known; the slice panics when
\* end_pos is not a character boundary
cut_page(text, len, st, end_pos) ==
    IF ~is_char_boundary(text, end_pos)
    THEN [st EXCEPT !.panicked = TRUE]
    ELSE [current_pos |-> end_pos,
          pages |-> push_page(st.pages, Trim(page_text(text, len, st.current_pos, end_pos))),
          panicked |-> FALSE]

\* one iteration of the while loop of character_based_splitting
char_iteration(text, len, st) ==
    cut_page(text, len, st, end_of_page(text, len, st.current_pos))

RECURSIVE char_loop(_, _, _)
\* while current_pos < text.len() { ... }
char_loop(text, len, st) ==
    IF st.panicked \/ st.current_pos >= len THEN st
    ELSE char_loop(text, len, char_iteration(text, len, st))

\* the locals of character_based_splitting before the loop
char_start == [current_pos |-> 0, pages |-> <<>>, panicked |-> FALSE]

\* character_based_splitting: the pages it returns (when no slice panics)
character_based_splitting(text) == char_loop(text, ByteLen(text), char_start).pages

\* method 4, and method 5 if it yields at most one page
from_content(full_text, ps) ==
    IF Len(ps) > 1 THEN ps ELSE character_based_splitting(full_text)

\* method 3 with what its loop found, and the methods after it
from_structure(full_text, found) ==
    IF found # None THEN found[1]
    ELSE from_content(full_text, content_based_page_splitting(full_text))

\* method 2 with what its loop found, and the methods after it
from_page_indicators(full_text, found) ==
    IF found # None THEN found[1]
    ELSE from_structure(full_text, structure_pages(full_text, 1))

\* method 1 with the pieces between form feeds, and the methods after it
from_form_feed(full_text, ps) ==
    IF contains(full_text, "\f") /\ ps # <<>> THEN ps
    ELSE from_page_indicators(full_text, indicator_pages(full_text, 1))

\* intelligent_page_splitting
intelligent_page_splitting(full_text) ==
    from_form_feed(full_text, form_feed_pages(full_text))

(* --------------------- content stream text extractor ------------------ *)

RECURSIVE replace(_, _, _, _, _)
\* str::replace of the two-character pattern c1 c2 by the character to, from
\* index i on: the matches are taken from left to right and do not overlap
replace(s, i, c1, c2, to) ==
    IF i > Len(s) THEN <<>>
    ELSE IF i < Len(s) /\ s[i] = c1 /\ s[i + 1] = c2
         THEN <<to>> \o replace(s, i + 2, c1, c2, to)
         ELSE <<s[i]>> \o replace(s, i + 1, c1, c2, to)

RECURSIVE remove_octal(_, _)
\* Regex::new(r"\\[0-9]{3}").replace_all(&text, ""), from index i on
remove_octal(s, i) ==
    IF i > Len(s) THEN <<>>
    ELSE IF /\ s[i] = "\\"
            /\ i + 3 <= Len(s)
            /\ \A k \in 1..3 : s[i + k] \in Digits
         THEN remove_octal(s, i + 4)
         ELSE <<s[i]>> \o remove_octal(s, i + 1)

\* clean_pdf_text_content: the six replace calls in the order of the source,
\* the removal of the octal escapes, trim
clean_pdf_text_content(text) ==
    Trim(remove_octal(
             replace(replace(replace(replace(replace(replace(text,
                 1, "\\", "(", "("),
                 1, "\\", ")", ")"),
                 1, "\\", "\\", "\\"),
                 1, "\\", "n", "\n"),
                 1, "\\", "r", "\r"),
                 1, "\\", "t", "\t"),
             1))

\* the characters c1 c2 stand at indices i and i + 1 of s
at2(s, i, c1, c2) == i >= 1 /\ i + 1 <= Len(s) /\ s[i] = c1 /\ s[i + 1] = c2

\* the end of the match found for the candidates ends (0 if there is none)
first_of(ends) == IF ends = {} THEN 0 ELSE Min(ends)

\* (?s)BT\s+(.*?)\s+ET matched at index i of s: the index of the E of the ET
\* that ends the match, 0 if there is no match.  The lazy group stops at the
\* first ET that white space precedes, one white-space character at least
\* being left for BT\s+.
bt_et_end(s, i) ==
    IF at2(s, i, "B", "T") /\ i + 2 <= Len(s) /\ s[i + 2] \in WS
    THEN first_of({j \in (i + 4)..Len(s) : s[j - 1] \in WS /\ at2(s, j, "E", "T")})
    ELSE 0

RECURSIVE bt_et_from(_, _)
\* bt_et_regex.find_iter, given the indices at which a match starts: the
\* matches from left to right, without overlap, each as its text
bt_et_from(s, starts) ==
    IF starts = {} THEN <<>>
    ELSE <<SubSeq(s, Min(starts), bt_et_end(s, Min(starts)) + 1)>>
             \o bt_et_from(s, {i \in starts : i > bt_et_end(s, Min(starts)) + 1})

\* bt_et_regex.find_iter(&content_str)
bt_et_blocks(s) == bt_et_from(s, {i \in 1..Len(s) : bt_et_end(s, i) > 0})

\* \[(.*?)\]\s*TJ (open "[", close "]", c2 "J") or \((.*?)\)\s*Tj (open "(",
\* close ")", c2 "j") matched at index i of s: the index of the closing
\* delimiter, 0 if there is no match.  The lazy group holds no newline and
\* stops at the first closing delimiter that white space and the operator
\* follow.
show_close(s, i, open, close, c2) ==
    IF s[i] = open
    THEN first_of({k \in (i + 1)..Len(s) :
                       /\ s[k] = close
                       /\ \A m \in (i + 1)..(k - 1) : s[m] # "\n"
                       /\ at2(s, RunEnd(s, k + 1, WS), "T", c2)})
    ELSE 0

\* the index of the last character of the match whose group closes at k
show_end(s, k) == RunEnd(s, k + 1, WS) + 1

RECURSIVE show_from(_, _, _, _, _)
\* find_iter of a show-text pattern, then captures.get(1) of each match: the
\* groups of the matches from left to right, without overlap
show_from(s, starts, open, close, c2) ==
    IF starts = {} THEN <<>>
    ELSE <<SubSeq(s, Min(starts) + 1, show_close(s, Min(starts), open, close, c2) - 1)>>
             \o show_from(s, {i \in starts :
                                  i > show_end(s, show_close(s, Min(starts), open, close, c2))},
                          open, close, c2)

\* the groups of the matches of a show-text pattern in a text block
show_texts(s, open, close, c2) ==
    show_from(s, {i \in 1..Len(s) : show_close(s, i, open, close, c2) > 0}, open, close, c2)

\* if !cleaned.is_empty() { text.push_str(&cleaned); text.push(' ') }
push_cleaned(text, cleaned) == IF cleaned # <<>> THEN text \o cleaned \o <<" ">> ELSE text

RECURSIVE push_texts(_, _)
\* one of the two loops over the matches of a text block
push_texts(text, groups) ==
    IF groups = <<>> THEN text
    ELSE push_texts(push_cleaned(text, clean_pdf_text_content(groups[1])), Tail(groups))

\* mutant of block_text: the simple form is extracted before the array form
block_text_simple_first(text, text_block) ==
    push_texts(push_texts(text, show_texts(text_block, "(", ")", "j")),
               show_texts(text_block, "[", "]", "J"))

\* the body of the loop over the text blocks: the array form (TJ), then the
\* simple form (Tj)
block_text(text, text_block) ==
    push_texts(push_texts(text, show_texts(text_block, "[", "]", "J")),
               show_texts(text_block, "(", ")", "j"))

RECURSIVE blocks_text(_, _)
\* for bt_match in bt_et_regex.find_iter(&content_str) { ... }
blocks_text(text, blocks) ==
    IF blocks = <<>> THEN text
    ELSE blocks_text(block_text(text, blocks[1]), Tail(blocks))

\* parse_pdf_content_stream: the value of Ok(text)
parse_pdf_content_stream(content_str) == blocks_text(<<>>, bt_et_blocks(content_str))

(* ------------------------ raw fallback extractor ---------------------- *)

\* ".,!?;:\"'()-"
ReadableMarks == {".", ",", "!", "?", ";", ":", "\"", "'", "(", ")", "-"}

\* c.is_ascii_alphanumeric() || c.is_whitespace() || ".,!?;:\"'()-".contains(*c)
is_printable(c) == c \in Letters \/ c \in Digits \/ c \in WS \/ c \in ReadableMarks

\* text.chars().filter(...).count()
printable_chars(text) == Cardinality({i \in 1..Len(text) : is_printable(text[i])})

\* text.chars().count()
total_chars(text) == Len(text)

min_readable_len == 2

\* is_likely_readable_text.  The quotient of the two counts and the literal
\* 0.7 are f64 values: the quotient is the double nearest to
\* printable_chars / total_chars and 0.7 the double nearest to 7/10, so the
\* comparison is that of the fractions (for texts of less than 10^14 characters)
is_likely_readable_text(text) ==
    IF ByteLen(text) < min_readable_len THEN FALSE
    ELSE 10 * printable_chars(text) > 7 * total_chars(text)

(* --------------------------- ConvertCmd::exec ------------------------- *)

OutputFormat == {"Epub", "Html", "Txt"}

Err(why) == [kind |-> "Err", why |-> why]

Ok(v) == [kind |-> "Ok", v |-> v]

\* texts a page's content streams yield: blank, or readable text
StreamTexts == { <<" ">>, <<"H", "\n", "a", "a">>, <<"a", "a">> }

\* texts a full-text extraction yields: blank; one page; two pages and a blank
\* piece separated by form feeds
FullTexts ==
    { <<" ", "\n">>,
      <<"a", "a", "\n">>,
      <<"H", "\n", "a", "a", "\f", " ", "\f", "a", "a">> }

\* format!("[Page {} - No extractable text]", idx + 1)
NoTextPlaceholder(n) ==
    <<"[", "P", "a", "g", "e", " ">> \o Dec(n)
        \o <<" ", "-", " ", "N", "o", " ", "e", "x", "t", "r", "a", "c", "t", "a", "b", "l", "e",
             " ", "t", "e", "x", "t", "]">>

\* format!("[Page {} - Text extraction failed: {}]", idx + 1, e), e shown as "e"
FailedPlaceholder(n) ==
    <<"[", "P", "a", "g", "e", " ">> \o Dec(n)
        \o <<" ", "-", " ", "T", "e", "x", "t", " ", "e", "x", "t", "r", "a", "c", "t", "i", "o", "n",
             " ", "f", "a", "i", "l", "e", "d", ":", " ", "e", "]">>

\* mutant of page_entry: the placeholders carry the 0-based index
page_entry_zero_based(r, idx) ==
    IF r.kind = "Err" THEN FailedPlaceholder(idx)
    ELSE IF Trim(r.v) = <<>> THEN NoTextPlaceholder(idx)
    ELSE r.v

\* the entry extract_pages_with_lopdf pushes for page idx (0-based), given what
\* extract_page_text returned for it
page_entry(r, idx) ==
    IF r.kind = "Err" THEN FailedPlaceholder(idx + 1)
    ELSE IF Trim(r.v) = <<>> THEN NoTextPlaceholder(idx + 1)
    ELSE r.v

\* a ConvertCmd as parsed from the command line; the input file as the
\* libraries see it: whether it exists, whether lopdf's Document::load parses
\* it, and what pdf_extract::extract_text and extract_raw_text_content return
InitExec ==
    /\ cmd \in [chapter_pattern : {"valid", "invalid"},
                min_chapter_length : MinLengths,
                max_pages_per_chapter : {0, 1},
                clean_text : BOOLEAN,
                format : OutputFormat]
    /\ pdf \in [exists : {TRUE}, loadable : BOOLEAN,
                pdf_extract : {Err("pdf-extract")} \cup {Ok(t) : t \in FullTexts},
                raw : {Err("read")} \cup {Ok(t) : t \in FullTexts}]
           \cup {[exists |-> FALSE, loadable |-> FALSE,
                  pdf_extract |-> Err("pdf-extract"), raw |-> Err("read")]}
    /\ processor = None
    /\ pc = "exec"
    /\ pages = <<>>
    /\ page_idx = 0
    /\ chapters = <<>>
    /\ current_chapter = None
    /\ log = <<>>
    /\ generated = None
    /\ result = Running
    /\ frame = None

\* exec returns Err: the ? operator or anyhow::bail!
Fail(why) ==
    /\ pc' = "done"
    /\ result' = Err(why)

\* if !self.input.exists() { bail }
CheckInput ==
    /\ pc = "exec"
    /\ IF pdf.exists
       THEN pc' = "new" /\ UNCHANGED result
       ELSE Fail("input does not exist")
    /\ UNCHANGED <<frame, cmd, pdf, processor, pages, page_idx, chapters, current_chapter,
                   log, generated>>

\* mutant of regex_new: the pattern is not compiled in the constructor
regex_new_unchecked(chapter_pattern) == "Ok"

\* Regex::new(chapter_pattern).context("Invalid chapter detection regex pattern")
regex_new(chapter_pattern) == IF chapter_pattern = "valid" THEN "Ok" ELSE "Err"

\* PdfProcessor::new(...)?: Regex::new(chapter_pattern) decides
New ==
    /\ pc = "new"
    /\ IF regex_new(cmd.chapter_pattern) = "Ok"
       THEN /\ processor' = [min_chapter_length |-> cmd.min_chapter_length,
                             max_pages_per_chapter |-> cmd.max_pages_per_chapter,
                             clean_text |-> cmd.clean_text]
            /\ log' = Append(log, Ev("PdfProcessor::new", "Ok"))
            /\ pc' = "extract_metadata"
            /\ UNCHANGED result
       ELSE /\ log' = Append(log, Ev("PdfProcessor::new", "Err"))
            /\ Fail("invalid chapter pattern")
            /\ UNCHANGED processor
    /\ UNCHANGED <<frame, cmd, pdf, pages, page_idx, chapters, current_chapter, generated>>

\* processor.extract_metadata(&self.input)?: Document::load(pdf_path)? first
ExtractMetadata ==
    /\ pc = "extract_metadata"
    /\ IF pdf.loadable
       THEN /\ log' = log \o <<Ev("extract_metadata", "Ok"), Ev("Document::load", "Ok")>>
            /\ pc' = "extract_text_by_pages"
            /\ UNCHANGED result
       ELSE /\ log' = log \o <<Ev("extract_metadata", "Err"), Ev("Document::load", "Err")>>
            /\ Fail("failed to load PDF document")
    /\ UNCHANGED <<frame, cmd, pdf, processor, pages, page_idx, chapters, current_chapter, generated>>

\* mutant of after_lopdf: the return in the Ok arm is missing
after_lopdf_no_return(ret) == "extract_with_fallback_methods"

\* match self.extract_pages_with_lopdf(pdf_path): Ok(pages) => return Ok(pages),
\* Err(e) => fall through to method 2
after_lopdf(ret) ==
    IF ret = "Ok" THEN "detect_chapters" ELSE "extract_with_fallback_methods"

\* the calls extract_pages_with_lopdf makes for the pages of the document, in
\* document.get_pages() order: one extract_page_text per page
page_calls(texts) == [i \in 1..Len(texts) |-> Ev("extract_page_text", texts[i])]

\* extract_text_by_pages, method 1: extract_pages_with_lopdf.  Ok(pages) is
\* returned as it is; Err falls through to the fallback.
ExtractPagesWithLopdf ==
    /\ pc = "extract_text_by_pages"
    /\ \/ /\ ~pdf.loadable                       \* Document::load(pdf_path)?
          /\ log' = log \o <<Ev("extract_text_by_pages", "-"),
                             Ev("extract_pages_with_lopdf", "Err"),
                             Ev("Document::load", "Err")>>
          /\ pc' = after_lopdf("Err")
          /\ UNCHANGED pages
       \/ /\ pdf.loadable
          /\ \E page_count \in 0..ExecMaxPages :
               IF page_count = 0                  \* bail!("PDF contains no pages")
               THEN /\ log' = log \o <<Ev("extract_text_by_pages", "-"),
                                       Ev("extract_pages_with_lopdf", "Err"),
                                       Ev("Document::load", "Ok"),
                                       Ev("Document::get_pages", page_count)>>
                    /\ pc' = after_lopdf("Err")
                    /\ UNCHANGED pages
               ELSE \E texts \in [1..page_count ->
                                      {Err("e")} \cup {Ok(t) : t \in StreamTexts}] :
                    /\ pages' = [i \in 1..page_count |-> page_entry(texts[i], i - 1)]
                    /\ log' = log \o <<Ev("extract_text_by_pages", "-"),
                                       Ev("extract_pages_with_lopdf", "Ok"),
                                       Ev("Document::load", "Ok"),
                                       Ev("Document::get_pages", page_count)>>
                                  \o page_calls(texts)
                    /\ pc' = after_lopdf("Ok")
    /\ UNCHANGED <<frame, cmd, pdf, processor, page_idx, chapters, current_chapter,
                   generated, result>>

\* mutant of accepted: any Ok text is accepted, blank or not
accepted_any_ok(r) == r.kind = "Ok"

\* a full text is accepted if !full_text.trim().is_empty()
accepted(r) == r.kind = "Ok" /\ Trim(r.v) # <<>>

\* extract_with_fallback_methods, method 1: pdf_extract::extract_text
PdfExtract ==
    /\ pc = "extract_with_fallback_methods"
    /\ IF accepted(pdf.pdf_extract)
       THEN /\ pages' = intelligent_page_splitting(pdf.pdf_extract.v)
            /\ log' = log \o <<Ev("extract_with_fallback_methods", "-"),
                               Ev("pdf_extract::extract_text", "Ok"),
                               Ev("intelligent_page_splitting", "Ok")>>
            /\ pc' = "detect_chapters"
       ELSE /\ log' = log \o <<Ev("extract_with_fallback_methods", "-"),
                               Ev("pdf_extract::extract_text", pdf.pdf_extract.kind)>>
            /\ pc' = "extract_raw_text_content"
            /\ UNCHANGED pages
    /\ UNCHANGED <<frame, cmd, pdf, processor, page_idx, chapters, current_chapter,
                   generated, result>>

\* extract_with_fallback_methods, method 2: extract_raw_text_content; if it
\* fails too, extract_text_by_pages bails and exec returns the error
RawExtract ==
    /\ pc = "extract_raw_text_content"
    /\ IF accepted(pdf.raw)
       THEN /\ pages' = intelligent_page_splitting(pdf.raw.v)
            /\ log' = log \o <<Ev("extract_raw_text_content", "Ok"),
                               Ev("intelligent_page_splitting", "Ok")>>
            /\ pc' = "detect_chapters"
            /\ UNCHANGED result
       ELSE /\ log' = Append(log, Ev("extract_raw_text_content", pdf.raw.kind))
            /\ Fail("all text extraction methods failed")
            /\ UNCHANGED pages
    /\ UNCHANGED <<frame, cmd, pdf, processor, page_idx, chapters, current_chapter, generated>>

\* processor.detect_chapters(&pages): entry
DetectChapters ==
    /\ pc = "detect_chapters"
    /\ log' = Append(log, Ev("detect_chapters", "-"))
    /\ chapters' = <<>>
    /\ current_chapter' = None
    /\ page_idx' = 0
    /\ pc' = "scan"
    /\ UNCHANGED <<frame, cmd, pdf, processor, pages, generated, result>>

\* mutant of is_empty: the check of the chapter list never fires
is_empty_never(chs) == FALSE

\* chapters.is_empty()
is_empty(chs) == chs = <<>>

\* if chapters.is_empty() { bail }
CheckChapters ==
    /\ pc = "detected"
    /\ IF is_empty(chapters)
       THEN Fail("no chapters detected or content too short")
       ELSE pc' = "generate" /\ UNCHANGED result
    /\ UNCHANGED <<frame, cmd, pdf, processor, pages, page_idx, chapters, current_chapter,
                   log, generated>>

\* match self.format { ... generator.generate_xxx(&metadata, &chapters, ...)? }
Generate ==
    /\ pc = "generate"
    /\ LET generator == CASE cmd.format = "Epub" -> "generate_epub"
                          [] cmd.format = "Html" -> "generate_html"
                          [] cmd.format = "Txt" -> "generate_txt"
       IN  \E ret \in {"Ok", "Err"} :
               /\ log' = Append(log, Ev(generator, ret))
               /\ generated' = Some([generator |-> generator, chapters |-> chapters])
               /\ result' = IF ret = "Ok" THEN Ok("converted") ELSE Err("generator failed")
    /\ pc' = "done"
    /\ UNCHANGED <<frame, cmd, pdf, processor, pages, page_idx, chapters, current_chapter>>

Init == InitExec

Next ==
    \/ CheckInput
    \/ New
    \/ ExtractMetadata
    \/ ExtractPagesWithLopdf
    \/ PdfExtract
    \/ RawExtract
    \/ DetectChapters
    \/ ScanPage
    \/ FinishDetect
    \/ CheckChapters
    \/ Generate

Spec == Init /\ [][Next]_vars

(* -------------- intelligent_page_splitting called on its own ---------- *)

\* the variables of the conversion, idle while a function is called on its own
conversion_vars ==
    <<cmd, pdf, processor, pc, pages, page_idx, chapters, current_chapter,
      log, generated, result>>

NoConversion ==
    /\ cmd = NoCmd
    /\ pdf = NoPdf
    /\ processor = None
    /\ pc = "call"
    /\ pages = <<>>
    /\ page_idx = 0
    /\ chapters = <<>>
    /\ current_chapter = None
    /\ log = <<>>
    /\ generated = None
    /\ result = Running

\* n copies of the character c
Fill(c, n) == [i \in 1..n |-> c]

\* n lines, the lines at the indices in S being line, the others other
LinesText(n, S, line, other) ==
    Join([i \in 1..n |-> IF i \in S THEN line ELSE other], <<"\n">>)

\* what may stand before and after the body of a full text
Affixes ==
    { <<>>, <<"a", "a">>, <<" ">>, <<"\f">>, <<"\n">>, <<"1", "2">>,
      <<"p", "a", "g", "e", " ", "1", " ">>, <<"-", " ", "1", " ", "-">> }

\* bodies of full texts: empty; three pieces between form feeds; a word; two
\* page numbers; three chapter headings; 41 short lines; 39 short lines, an
\* empty line and a short line; 40 empty lines and a short line; 82 lines of
\* 20 characters; 2600 characters on one line
Bodies ==
    { <<>>,
      <<"A", "\f", "B", "\f", "C">>,
      <<"b", "b">>,
      <<"P", "a", "g", "e", " ", "1", " ", "o", "f", " ", "2">>,
      <<"C", "h", "a", "p", "t", "e", "r", " ", "1", "\n",
        "C", "h", "a", "p", "t", "e", "r", " ", "2", "\n",
        "C", "h", "a", "p", "t", "e", "r", " ", "3">>,
      LinesText(41, {}, <<>>, <<"a">>),
      LinesText(41, {40}, <<>>, <<"a">>),
      LinesText(41, 1..40, <<>>, <<"a">>),
      LinesText(82, {}, <<>>, Fill("a", 20)),
      Fill("a", 2600) }

FullTextInputs == {a \o b \o c : a \in Affixes, b \in Bodies, c \in Affixes}

InitSplit ==
    /\ NoConversion
    /\ frame \in {[fn |-> "intelligent_page_splitting", full_text |-> t, ret |-> None] :
                      t \in FullTextInputs}

\* the call of intelligent_page_splitting(full_text) and its return
SplitCall ==
    /\ frame.fn = "intelligent_page_splitting"
    /\ frame.ret = None
    /\ frame' = [frame EXCEPT !.ret = Some(intelligent_page_splitting(frame.full_text))]
    /\ UNCHANGED conversion_vars

NextSplit == SplitCall

SpecSplit == InitSplit /\ [][NextSplit]_vars

(* -------------- character_based_splitting called on its own ----------- *)

\* where the marker of a text stands: its distance from the start of the text
MarkerOffsets == {0, 1, 1999, 2000, 2499, 2500, 2700, 2701, 3000, 3001}

\* nothing, a paragraph break, a sentence end, a sentence end that no white
\* space follows, a two-byte character
Markers ==
    { <<>>, <<"\n", "\n">>, <<".", " ">>, <<"?", "a">>, <<"U+00E9">> }

\* how many characters follow the marker
TailLengths == {0, 1, 600, 2600}

\* texts: white space or letters up to the marker, the marker, letters after it
CharTexts ==
    {Fill(c, n) \o m \o Fill("a", k) :
         c \in {"a", " "}, n \in MarkerOffsets, m \in Markers, k \in TailLengths}

\* texts with a paragraph break before, at or after character 2500, a sentence
\* end ten characters further and 600 letters after it
BreakTexts ==
    {Fill("a", n) \o <<"\n", "\n">> \o Fill("a", 10) \o <<".", " ">> \o Fill("a", 600) :
         n \in {2400, 2500, 2600}}

InitChar ==
    /\ NoConversion
    /\ frame \in {[fn |-> "character_based_splitting", text |-> t,
                   current_pos |-> char_start.current_pos, pages |-> char_start.pages,
                   panicked |-> char_start.panicked, returned |-> FALSE] :
                      t \in CharTexts \cup BreakTexts}

\* the locals of the loop
locals(f) == [current_pos |-> f.current_pos, pages |-> f.pages, panicked |-> f.panicked]

\* frame after an iteration that leaves the locals as st
with_locals(f, st) ==
    [f EXCEPT !.current_pos = st.current_pos, !.pages = st.pages, !.panicked = st.panicked]

\* one iteration of while current_pos < text.len()
CharIteration ==
    /\ frame.fn = "character_based_splitting"
    /\ ~frame.returned /\ ~frame.panicked
    /\ frame.current_pos < ByteLen(frame.text)
    /\ frame' = with_locals(frame, char_iteration(frame.text, ByteLen(frame.text), locals(frame)))
    /\ UNCHANGED conversion_vars

\* the loop ends and the function returns pages
CharReturn ==
    /\ frame.fn = "character_based_splitting"
    /\ ~frame.returned /\ ~frame.panicked
    /\ frame.current_pos >= ByteLen(frame.text)
    /\ frame' = [frame EXCEPT !.returned = TRUE]
    /\ UNCHANGED conversion_vars

NextChar == CharIteration \/ CharReturn

SpecChar == InitChar /\ [][NextChar]_vars

(* --------------- is_likely_readable_text called on its own ------------ *)

\* a letter, a listed mark, a blank, a mark that is not listed, a control
\* character, a letter that is not ASCII, a no-break space
ReadAlphabet == {"a", ",", " ", "#", "U+0001", "U+00E9", "U+00A0"}

\* "Hello, World!"
HelloWorld == <<"H", "e", "l", "l", "o", ",", " ", "W", "o", "r", "l", "d", "!">>

\* ten characters of which k are letters and the others control characters,
\* the letters first or last
RatioTexts ==
    {Fill("a", k) \o Fill("U+0001", 10 - k) : k \in 0..10}
        \cup {Fill("U+0001", 10 - k) \o Fill("a", k) : k \in 0..10}

ReadableInputs == SeqsUpTo(ReadAlphabet, MaxReadLen) \cup RatioTexts \cup {HelloWorld}

InitReadable ==
    /\ NoConversion
    /\ frame \in {[fn |-> "is_likely_readable_text", text |-> t, ret |-> None] :
                      t \in ReadableInputs}

\* the call of is_likely_readable_text(text) and its return
ReadableCall ==
    /\ frame.fn = "is_likely_readable_text"
    /\ frame.ret = None
    /\ frame' = [frame EXCEPT !.ret = Some(is_likely_readable_text(frame.text))]
    /\ UNCHANGED conversion_vars

NextReadable == ReadableCall

SpecReadable == InitReadable /\ [][NextReadable]_vars

(* --------------- clean_pdf_text_content called on its own ------------- *)

\* the escapes \( \) \\ \n \r \t of a content stream literal
Escapes ==
    { <<"\\", "(">>, <<"\\", ")">>, <<"\\", "\\">>,
      <<"\\", "n">>, <<"\\", "r">>, <<"\\", "t">> }

\* plain characters of a literal
PlainChars == { <<"a">>, <<"n">>, <<"1">>, <<" ">> }

RECURSIVE Flatten(_)
\* the concatenation of the tokens
Flatten(tokens) == IF tokens = <<>> THEN <<>> ELSE tokens[1] \o Flatten(Tail(tokens))

\* the literals built from at most MaxTokens escapes and plain characters
Literals == {Flatten(tokens) : tokens \in SeqsUpTo(Escapes \cup PlainChars, MaxTokens)}

InitClean ==
    /\ NoConversion
    /\ frame \in {[fn |-> "clean_pdf_text_content", text |-> t, ret |-> None] :
                      t \in Literals}

\* the call of clean_pdf_text_content(text) and its return
CleanCall ==
    /\ frame.fn = "clean_pdf_text_content"
    /\ frame.ret = None
    /\ frame' = [frame EXCEPT !.ret = Some(clean_pdf_text_content(frame.text))]
    /\ UNCHANGED conversion_vars

NextClean == CleanCall

SpecClean == InitClean /\ [][NextClean]_vars

(* ---------------- MetaInfContainer::new called on its own ------------- *)

\* the media type of a rootfile element that has no media-type attribute
default_media_type == "application/oebps-package+xml"

\* xml::name::OwnedName: the local name and the namespace prefix ("" if none)
OwnedName(prefix, local_name) == [prefix |-> prefix, local_name |-> local_name]

\* xml::attribute::OwnedAttribute
OwnedAttribute(name, value) == [name |-> name, value |-> value]

\* Ok(XmlEvent::StartElement { name, attributes, .. })
StartElement(name, attributes) ==
    [kind |-> "Ok", event |-> "StartElement", name |-> name, attributes |-> attributes]

\* Ok of an event that is not a StartElement (EndElement, Characters, ...)
OtherEvent(event) ==
    [kind |-> "Ok", event |-> event, name |-> OwnedName("", ""), attributes |-> <<>>]

\* Err(e): the reader met text that is not XML
ErrEvent == [kind |-> "Err", event |-> "", name |-> OwnedName("", ""), attributes |-> <<>>]

\* PathBuf::from: the path made of the characters of the string
PathBuf(s) == [path |-> s]

\* attributes.iter().find(|attr| attr.name.local_name == local_name): the index
\* of the first such attribute, 0 if there is none
find(attributes, local_name) ==
    IF \E i \in 1..Len(attributes) : attributes[i].name.local_name = local_name
    THEN Min({i \in 1..Len(attributes) : attributes[i].name.local_name = local_name})
    ELSE 0

\* mutant of media_type: no default, the empty string instead
media_type_no_default(attributes) ==
    IF find(attributes, "media-type") = 0 THEN ""
    ELSE attributes[find(attributes, "media-type")].value

\* let media_type = ... .map_or_else(|| default, |attr| attr.value.clone())
media_type(attributes) ==
    IF find(attributes, "media-type") = 0 THEN default_media_type
    ELSE attributes[find(attributes, "media-type")].value

\* let full_path = ... .map_or_else(|| PathBuf::from(""), |attr| PathBuf::from(&attr.value))
full_path(attributes) ==
    IF find(attributes, "full-path") = 0 THEN PathBuf("")
    ELSE PathBuf(attributes[find(attributes, "full-path")].value)

\* RootFile { media_type, full_path }
RootFile(attributes) ==
    [media_type |-> media_type(attributes), full_path |-> full_path(attributes)]

\* the body of the loop over the events of the reader
container_event(rootfiles, maybe_event) ==
    IF /\ maybe_event.kind = "Ok"
       /\ maybe_event.event = "StartElement"
       /\ maybe_event.name.local_name = "rootfile"
    THEN Append(rootfiles, RootFile(maybe_event.attributes))
    ELSE rootfiles

\* attribute lists of an element: both attributes in either order, one of the
\* two, none, another attribute, and an attribute of another namespace before
\* the one without a namespace
AttributeLists ==
    { <<OwnedAttribute(OwnedName("", "full-path"), "OEBPS/content.opf"),
        OwnedAttribute(OwnedName("", "media-type"), "application/oebps-package+xml")>>,
      <<OwnedAttribute(OwnedName("", "media-type"), "text/xml"),
        OwnedAttribute(OwnedName("", "full-path"), "a.opf")>>,
      <<OwnedAttribute(OwnedName("", "full-path"), "b.opf")>>,
      <<OwnedAttribute(OwnedName("", "media-type"), "text/plain")>>,
      <<>>,
      <<OwnedAttribute(OwnedName("", "version"), "1.0")>>,
      <<OwnedAttribute(OwnedName("x", "full-path"), "c.opf"),
        OwnedAttribute(OwnedName("", "full-path"), "d.opf")>> }

\* the events a reader yields: rootfile elements, other elements, other events,
\* an error
XmlEvents ==
    {StartElement(OwnedName("", "rootfile"), a) : a \in AttributeLists}
        \cup {StartElement(OwnedName("", "rootfiles"), <<>>),
              StartElement(OwnedName("", "container"),
                           <<OwnedAttribute(OwnedName("", "full-path"), "e.opf")>>),
              OtherEvent("EndElement"),
              ErrEvent}

\* the reader stops after the first error it yields
EventSequences ==
    {es \in SeqsUpTo(XmlEvents, MaxEvents) :
         \A i \in 1..Len(es) : es[i].kind = "Err" => i = Len(es)}

\* the call: bytes that are UTF-8 and read as the events, or bytes that are not
InitContainer ==
    /\ NoConversion
    /\ frame \in {[fn |-> "MetaInfContainer::new", utf8 |-> TRUE, events |-> es,
                   next |-> 1, rootfiles |-> <<>>, ret |-> None] :
                      es \in EventSequences}
                 \cup {[fn |-> "MetaInfContainer::new", utf8 |-> FALSE, events |-> <<>>,
                        next |-> 1, rootfiles |-> <<>>, ret |-> None]}

\* String::from_utf8(container_xml) fails: the function returns the error
FromUtf8Err ==
    /\ frame.fn = "MetaInfContainer::new"
    /\ frame.ret = None
    /\ ~frame.utf8
    /\ frame' = [frame EXCEPT !.ret = Some(Err("Failed to convert bytes to string"))]
    /\ UNCHANGED conversion_vars

\* one iteration of for maybe_event in xml_reader
ContainerEvent ==
    /\ frame.fn = "MetaInfContainer::new"
    /\ frame.ret = None
    /\ frame.utf8
    /\ frame.next <= Len(frame.events)
    /\ frame' = [frame EXCEPT !.rootfiles = container_event(@, frame.events[frame.next]),
                              !.next = @ + 1]
    /\ UNCHANGED conversion_vars

\* the reader is exhausted: Ok(Self { rootfiles })
ContainerReturn ==
    /\ frame.fn = "MetaInfContainer::new"
    /\ frame.ret = None
    /\ frame.utf8
    /\ frame.next > Len(frame.events)
    /\ frame' = [frame EXCEPT !.ret = Some(Ok([rootfiles |-> frame.rootfiles]))]
    /\ UNCHANGED conversion_vars

NextContainer == FromUtf8Err \/ ContainerEvent \/ ContainerReturn

SpecContainer == InitContainer /\ [][NextContainer]_vars

(* ------------- detect_chapters on pages with several headings --------- *)

\* page texts: a heading on line one and another on line two; a heading on
\* line ten; a heading on line eleven (cleaning leaves all three as they are)
HeadingTexts ==
    { <<"H", "\n", "H", "b", "\n", "a">>,
      LinesText(10, {10}, <<"H">>, <<"a">>),
      LinesText(11, {11}, <<"H">>, <<"a">>) }

\* detect_chapters called on a PdfProcessor with any configuration and pages
InitHeadings ==
    /\ cmd = NoCmd
    /\ pdf = NoPdf
    /\ processor \in [min_chapter_length : MinLengths,
                      max_pages_per_chapter : 0..MaxSplit,
                      clean_text : BOOLEAN]
    /\ pages \in SeqsUpTo(HeadingTexts, MaxPages)
    /\ pc = "scan"
    /\ page_idx = 0
    /\ chapters = <<>>
    /\ current_chapter = None
    /\ log = <<Ev("detect_chapters", "-")>>
    /\ generated = None
    /\ result = Running
    /\ frame = None

SpecHeadings == InitHeadings /\ [][NextDetect]_vars

(* ------------- split_by_structural_markers called on its own ---------- *)

\* what stands before the first marker: nothing, words, blanks
MarkerPrefixes == { <<>>, <<"z", " ", "z", "\n">>, <<" ", " ">> }

\* the markers of a text
MarkerWords ==
    { <<"C", "h", "a", "p", "t", "e", "r", " ", "1">>, <<"c", "h", ".", " ", "1", "2">> }

\* what follows a marker: nothing, a line of text, blanks
MarkerBodies == { <<>>, <<"\n", "b", "b", "\n">>, <<" ", " ">> }

\* the texts made of a prefix and at most MaxMarkers markers with their bodies
MarkerTexts ==
    {p \o Flatten(segs) :
         p \in MarkerPrefixes,
         segs \in SeqsUpTo({w \o b : w \in MarkerWords, b \in MarkerBodies}, MaxMarkers)}

\* the chapter pattern of structure_patterns, matched anywhere in the text
chapter_marker == [structure_patterns[1] EXCEPT !.bol = FALSE]

\* the call: a text and the matches of the chapter pattern in it
InitMarkers ==
    /\ NoConversion
    /\ frame \in {[fn |-> "split_by_structural_markers", text |-> t,
                   matches |-> find_iter(t, chapter_marker), ret |-> None] :
                      t \in MarkerTexts}

\* the call of split_by_structural_markers(text, matches) and its return
MarkersCall ==
    /\ frame.fn = "split_by_structural_markers"
    /\ frame.ret = None
    /\ frame' = [frame EXCEPT !.ret = Some(split_by_structural_markers(frame.text, frame.matches))]
    /\ UNCHANGED conversion_vars

NextMarkers == MarkersCall

SpecMarkers == InitMarkers /\ [][NextMarkers]_vars

(* -------------- parse_pdf_content_stream called on its own ------------ *)

\* operations of a content stream as Content::encode writes them, one on a
\* line: two array-form show-text operators, two simple-form ones (the second
\* with an escaped parenthesis) and a text-positioning operator
StreamOperations ==
    { <<"[", "(", "A", ")", " ", "5", " ", "(", "B", ")", "]", " ", "T", "J", "\n">>,
      <<"[", "(", "C", ")", "]", " ", "T", "J", "\n">>,
      <<"(", "d", ")", " ", "T", "j", "\n">>,
      <<"(", "e", "\\", ")", "f", ")", " ", "T", "j", "\n">>,
      <<"0", " ", "0", " ", "T", "d", "\n">> }

\* a text block: BT, the operations, ET
TextBlock(ops) == <<"B", "T", "\n">> \o Flatten(ops) \o <<"E", "T", "\n">>

\* what follows the first text block: nothing, a second text block with a
\* simple-form operator before an array-form one, a show-text operator that
\* is in no text block
StreamTails ==
    { <<>>,
      TextBlock(<< <<"(", "z", ")", " ", "T", "j", "\n">>,
                   <<"[", "(", "y", ")", "]", " ", "T", "J", "\n">> >>),
      <<"(", "z", ")", " ", "T", "j", "\n">> }

\* the streams: a text block of at most MaxOps operations and what follows it
ContentStreams ==
    {TextBlock(ops) \o tail : ops \in SeqsUpTo(StreamOperations, MaxOps), tail \in StreamTails}

InitParse ==
    /\ NoConversion
    /\ frame \in {[fn |-> "parse_pdf_content_stream", content |-> c, ret |-> None] :
                      c \in ContentStreams}

\* the call of parse_pdf_content_stream(content) and its return
ParseCall ==
    /\ frame.fn = "parse_pdf_content_stream"
    /\ frame.ret = None
    /\ frame' = [frame EXCEPT !.ret = Some(Ok(parse_pdf_content_stream(frame.content)))]
    /\ UNCHANGED conversion_vars

NextParse == ParseCall

SpecParse == InitParse /\ [][NextParse]_vars

(* ----------------------- claims: detect_chapters ---------------------- *)

Returned == pc = "detected"

mcl == processor.min_chapter_length

mppc == processor.max_pages_per_chapter

\* the page has a heading among the first 10 lines of its cleaned text
HasHeading(text) ==
    LET lines == Lines(clean(text))
    IN  \E l \in 1..Len(lines) : l <= HeadLines /\ is_match(lines[l])

\* the trimmed first heading line among the first 10 lines of the cleaned page
HeadingOf(text) ==
    LET lines == Lines(clean(text))
    IN  Trim(lines[Min({l \in 1..Len(lines) : l <= HeadLines /\ is_match(lines[l])})])

IsFullDocument(ch) == ch.title = FullDocument

\* C1: every chapter returned by detect_chapters has page_start <= page_end,
\* for every page sequence and every configuration.
C1_PageStartLePageEnd ==
    Returned => \A i \in 1..Len(chapters) : chapters[i].page_start <= chapters[i].page_end

\* C2: every returned chapter other than a single synthetic "Full Document"
\* chapter has content length >= min_chapter_length.
C2_MinChapterLength ==
    Returned =>
        \A i \in 1..Len(chapters) :
            \/ Len(chapters) = 1 /\ IsFullDocument(chapters[i])
            \/ Len(chapters[i].content) >= mcl

\* C3: a heading on page 0, no heading on a later page, pages 0..4 and
\* max_pages_per_chapter = 2 give 3 part-chapters "<title> (Part k)", k = 1, 2, 3,
\* whose page ranges are contiguous, disjoint and cover exactly pages 0 to 4.
C3Case ==
    /\ Returned
    /\ Len(pages) = 5
    /\ mppc = 2
    /\ HasHeading(pages[1])
    /\ \A i \in 2..5 : ~HasHeading(pages[i])

C3_ThreeParts ==
    C3Case =>
        LET title == HeadingOf(pages[1])
        IN  /\ Len(chapters) = 3
            /\ \A k \in 1..3 : chapters[k].title = PartTitle(title, k)
            /\ chapters[1].page_start = 0
            /\ chapters[3].page_end = 4
            /\ \A k \in 1..3 : chapters[k].page_start <= chapters[k].page_end
            /\ \A k \in 1..2 : chapters[k + 1].page_start = chapters[k].page_end + 1

\* C4: with max_pages_per_chapter = m > 0 no returned chapter covers more than
\* m pages, an open chapter being force-finalized as soon as it has spanned m
\* pages.  (Stated of the chapters that were once open: the "Full Document"
\* chapter, which never is, is left out.)
C4_AtMostMaxPages ==
    (Returned /\ mppc > 0) =>
        \A i \in 1..Len(chapters) :
            \/ IsFullDocument(chapters[i])
            \/ chapters[i].page_end - chapters[i].page_start + 1 <= mppc

\* the page as extracted has a heading among its first 10 lines
HasHeadingRaw(text) ==
    \E l \in 1..Len(Lines(text)) : l <= HeadLines /\ is_match(Lines(text)[l])

\* exactly one chapter, "Full Document", from page 0 to the last page
OnlyFullDocument ==
    /\ Len(chapters) = 1
    /\ chapters[1].title = FullDocument
    /\ chapters[1].page_start = 0
    /\ chapters[1].page_end = Len(pages) - 1

\* C5 as stated: if no line among the first 10 lines of any page matches the
\* heading pattern and the pages joined by blank lines are at least
\* min_chapter_length long, the result is exactly one chapter, "Full
\* Document", from page 0 to the last page, whatever max_pages_per_chapter is.
C5_FullDocumentRawLines ==
    ( /\ Returned
      /\ Len(pages) >= 1
      /\ \A i \in 1..Len(pages) : ~HasHeadingRaw(pages[i])
      /\ Len(Join(pages, <<"\n", "\n">>)) >= mcl )
    => OnlyFullDocument

C5Case ==
    /\ Returned
    /\ Len(pages) >= 1
    /\ \A i \in 1..Len(pages) : ~HasHeading(pages[i])
    /\ Len(Join(pages, <<"\n", "\n">>)) >= mcl

\* C5, amended: the same, the first 10 lines being those of the page after
\* clean_text_content (which removes empty lines and so moves later lines up).
C5_FullDocument == C5Case => OnlyFullDocument

\* witness of C5: several pages, one of them with a heading below line ten,
\* a page limit in force
C5_Witness ==
    /\ C5Case
    /\ Len(pages) >= 3
    /\ mppc = 1
    /\ \E i \in 1..Len(pages) : \E l \in 1..Len(Lines(pages[i])) : is_match(Lines(pages[i])[l])
    /\ OnlyFullDocument

\* C7: page_start is non-decreasing along the returned list.
C7_PageStartNonDecreasing ==
    Returned =>
        \A i \in 1..(Len(chapters) - 1) : chapters[i].page_start <= chapters[i + 1].page_start

\* witness of C7: three chapters returned, from headings and from a forced split
C7_Witness ==
    /\ Returned
    /\ Len(chapters) >= 3
    /\ mppc > 0
    /\ \E i \in 1..(Len(chapters) - 1) : chapters[i].page_start < chapters[i + 1].page_start
    /\ \E i \in 1..(Len(chapters) - 1) : chapters[i].page_start = chapters[i + 1].page_start

(* ---------------------- claims: ConvertCmd::exec ---------------------- *)

Called(call) == Calls(call) # {}

Generators == {"generate_epub", "generate_html", "generate_txt"}

DetectReturnedEmpty == Called("detect_chapters") /\ pc \in {"detected", "done"} /\ chapters = <<>>

\* C6: when detect_chapters returns an empty list, exec returns an error and
\* invokes no generator; a generator is only ever called with a non-empty
\* chapter list.
C6_EmptyIsFatal ==
    /\ DetectReturnedEmpty =>
           /\ generated = None
           /\ \A g \in Generators : ~Called(g)
           /\ pc = "done" => result.kind = "Err"
    /\ generated # None => generated[1].chapters # <<>>
    /\ pc = "generate" => chapters # <<>>

\* witness of C6: exec has ended on an empty chapter list
C6_Witness ==
    /\ pc = "done"
    /\ DetectReturnedEmpty
    /\ pages # <<>>
    /\ result = Err("no chapters detected or content too short")

ExtractionCalls ==
    {"extract_metadata", "extract_text_by_pages", "extract_pages_with_lopdf",
     "extract_with_fallback_methods", "pdf_extract::extract_text",
     "extract_raw_text_content", "intelligent_page_splitting", "detect_chapters",
     "Document::load"}

\* C8: an unparseable chapter pattern makes the conversion fail in
\* PdfProcessor::new before any extraction work: no extract_metadata,
\* extract_text_by_pages or detect_chapters call happens and no PDF is loaded.
\* (exec tests that the input path exists before it calls new; when it does not
\* exist, exec fails there, also before any extraction work.)
C8_InvalidPatternFailsFirst ==
    cmd.chapter_pattern = "invalid" =>
        /\ \A c \in ExtractionCalls \cup Generators : ~Called(c)
        /\ processor = None
        /\ pc \in {"exec", "new", "done"}
        /\ pc = "done" =>
               /\ result.kind = "Err"
               /\ pdf.exists => /\ result = Err("invalid chapter pattern")
                                /\ log = <<Ev("PdfProcessor::new", "Err")>>

\* witness of C8: a readable PDF, an invalid pattern, exec has failed in new
C8_Witness ==
    /\ cmd.chapter_pattern = "invalid"
    /\ pdf.exists /\ pdf.loadable /\ accepted(pdf.raw)
    /\ pc = "done"
    /\ result = Err("invalid chapter pattern")

\* the structured (lopdf) path fails for the document
StructuredFails ==
    \/ ~pdf.loadable
    \/ \E i \in Calls("extract_pages_with_lopdf") : log[i].ret = "Err"

\* C9: a failure of the structured extraction is not fatal by itself: when it
\* fails but a full-text fallback strategy would yield non-blank text, the
\* conversion (of an existing input, with a valid pattern) reaches chapter
\* detection.
C9_FallbackReachesDetection ==
    ( /\ pc = "done"
      /\ pdf.exists
      /\ cmd.chapter_pattern = "valid"
      /\ StructuredFails
      /\ accepted(pdf.pdf_extract) \/ accepted(pdf.raw) )
    => Called("detect_chapters")

Once(call) == Cardinality(Calls(call)) = 1

AtMostOnce(call) == Cardinality(Calls(call)) <= 1

Before(c1, c2) == \A i \in Calls(c1), j \in Calls(c2) : i < j

\* extract_text_by_pages has returned Ok
ExtractReturnedOk == pc \in {"detect_chapters", "scan", "detected", "generate"} \/ Called("detect_chapters")

FallbackCalls ==
    {"extract_with_fallback_methods", "pdf_extract::extract_text",
     "extract_raw_text_content", "intelligent_page_splitting"}

\* C10: extract_text_by_pages runs its stages in a fixed order, each at most
\* once: the structured extraction first; if it returns Ok neither the
\* full-text fallback nor the page segmentation runs; only if it returns Err
\* does the fallback run, followed by exactly one page segmentation of the
\* accepted text.
C10_StageOrder ==
    /\ \A c \in FallbackCalls \cup {"extract_pages_with_lopdf"} : AtMostOnce(c)
    /\ \A c \in FallbackCalls :
           /\ Called(c) => Called("extract_pages_with_lopdf")
           /\ Before("extract_pages_with_lopdf", c)
    /\ (\E i \in Calls("extract_pages_with_lopdf") : log[i].ret = "Ok") =>
           /\ \A c \in FallbackCalls : ~Called(c)
           /\ \A i \in 1..Len(pages) :
                  pages[i] \in {page_entry(r, i - 1) :
                                    r \in {Err("e")} \cup {Ok(t) : t \in StreamTexts}}
    /\ Before("extract_with_fallback_methods", "pdf_extract::extract_text")
    /\ Before("pdf_extract::extract_text", "extract_raw_text_content")
    /\ Before("pdf_extract::extract_text", "intelligent_page_splitting")
    /\ Before("extract_raw_text_content", "intelligent_page_splitting")
    /\ \A i \in Calls("intelligent_page_splitting") :
           /\ log[i - 1].call \in {"pdf_extract::extract_text", "extract_raw_text_content"}
           /\ log[i - 1].ret = "Ok"
    /\ (ExtractReturnedOk /\ Called("extract_with_fallback_methods")) =>
           /\ Once("intelligent_page_splitting")
           /\ pages = intelligent_page_splitting(
                          IF accepted(pdf.pdf_extract) THEN pdf.pdf_extract.v ELSE pdf.raw.v)

\* witness of C10: the structured extraction failed, pdf_extract gave blank
\* text, the raw text was accepted and split at its form feeds
C10_Witness ==
    /\ pc = "done"
    /\ \E i \in Calls("extract_pages_with_lopdf") : log[i].ret = "Err"
    /\ \E i \in Calls("pdf_extract::extract_text") : log[i].ret = "Ok"
    /\ ~accepted(pdf.pdf_extract)
    /\ Once("intelligent_page_splitting")
    /\ Len(pages) = 2

(* ------------------ claims: extract_pages_with_lopdf ------------------ *)

\* extract_pages_with_lopdf has returned Ok(pages)
LopdfReturnedOk == \E i \in Calls("extract_pages_with_lopdf") : log[i].ret = "Ok"

\* the number of pages document.get_pages() holds
PageCount == log[Min(Calls("Document::get_pages"))].ret

\* what extract_page_text returned for source page i (1-based)
PageResult(i) == log[Min(Calls("extract_page_text")) + i - 1].ret

\* the decimal number a placeholder carries: the characters between
\* "[Page " and the next space
PlaceholderNumber(s) ==
    LET stop == Min({k \in 7..Len(s) : s[k] = " "})
    IN  SubSeq(s, 7, stop - 1)

\* C11: for a document of N >= 1 pages extract_pages_with_lopdf returns
\* exactly N page texts, entry i for source page i: the page's own text, or,
\* when its extraction erred or its text is blank, a placeholder that carries
\* the page's 1-based number; no page aborts the call or shifts later entries.
C11_OneEntryPerPage ==
    (Called("Document::get_pages") /\ PageCount >= 1) =>
        /\ LopdfReturnedOk
        /\ Cardinality(Calls("extract_page_text")) = PageCount
        /\ Len(pages) = PageCount
        /\ \A i \in 1..PageCount :
               \E r \in {PageResult(i)} :
                   IF r.kind = "Err"
                   THEN /\ pages[i] = FailedPlaceholder(i)
                        /\ PlaceholderNumber(pages[i]) = Dec(i)
                   ELSE IF Trim(r.v) = <<>>
                   THEN /\ pages[i] = NoTextPlaceholder(i)
                        /\ PlaceholderNumber(pages[i]) = Dec(i)
                   ELSE pages[i] = r.v

\* witness of C11: two pages, the first one fails, the second one has text
C11_Witness ==
    /\ LopdfReturnedOk
    /\ PageCount = 2
    /\ PageResult(1).kind = "Err"
    /\ PageResult(2) = Ok(<<"a", "a">>)
    /\ pages = <<FailedPlaceholder(1), <<"a", "a">>>>

\* C12: if extract_page_text errs for every page of the document,
\* extract_pages_with_lopdf returns Err, so that the full-text fallback is
\* attempted.
C12_AllPagesFailIsFailure ==
    ( /\ Called("Document::get_pages")
      /\ PageCount >= 1
      /\ \A i \in 1..PageCount : PageResult(i).kind = "Err" )
    => /\ ~LopdfReturnedOk
       /\ pc \notin {"detect_chapters"}

(* ---------------- claims: extract_with_fallback_methods --------------- *)

\* a sub-strategy returned a text that holds a non-whitespace character
NonBlank(r) == r.kind = "Ok" /\ \E i \in 1..Len(r.v) : r.v[i] \notin WS

\* the text sub-strategy c returned was handed to the page segmentation
FullTextAccepted(c) ==
    \E i \in Calls(c) : i < Len(log) /\ log[i + 1].call = "intelligent_page_splitting"

\* extract_with_fallback_methods returned Err and extract_text_by_pages bailed
FallbackFailed == pc = "done" /\ result = Err("all text extraction methods failed")

\* C13: extract_with_fallback_methods calls the external full-text extractor
\* first and accepts its text iff it is non-blank; the raw scan runs only if
\* the first sub-strategy erred or returned blank text, and its text is
\* accepted iff it is non-blank; the function fails iff neither sub-strategy
\* returned non-blank text, and then the conversion ends in an error without
\* chapter detection.
C13_FallbackAcceptance ==
    Called("extract_with_fallback_methods") =>
        /\ Called("pdf_extract::extract_text")
        /\ Before("extract_with_fallback_methods", "pdf_extract::extract_text")
        /\ Before("pdf_extract::extract_text", "extract_raw_text_content")
        /\ NonBlank(pdf.pdf_extract) <=> FullTextAccepted("pdf_extract::extract_text")
        /\ NonBlank(pdf.pdf_extract) => pages = intelligent_page_splitting(pdf.pdf_extract.v)
        /\ Called("extract_raw_text_content") => ~NonBlank(pdf.pdf_extract)
        /\ pc # "extract_raw_text_content" =>
               /\ Called("extract_raw_text_content") <=> ~NonBlank(pdf.pdf_extract)
               /\ Called("extract_raw_text_content") =>
                      /\ NonBlank(pdf.raw) <=> FullTextAccepted("extract_raw_text_content")
                      /\ NonBlank(pdf.raw) => pages = intelligent_page_splitting(pdf.raw.v)
               /\ FallbackFailed <=> (~NonBlank(pdf.pdf_extract) /\ ~NonBlank(pdf.raw))
        /\ FallbackFailed =>
               /\ ~Called("intelligent_page_splitting")
               /\ ~Called("detect_chapters")
               /\ generated = None

\* witness of C13: the external extractor returned blank text, the raw scan
\* erred, and the conversion failed
C13_Witness ==
    /\ Called("extract_with_fallback_methods")
    /\ pdf.pdf_extract = Ok(<<" ", "\n">>)
    /\ pdf.raw.kind = "Err"
    /\ Called("extract_raw_text_content")
    /\ FallbackFailed

(* ----------------- claims: intelligent_page_splitting ----------------- *)

\* intelligent_page_splitting has returned
SplitReturned == frame.ret # None

\* the number of non-empty segments of a method's output
NonEmptySegments(ps) == Cardinality({i \in 1..Len(ps) : ps[i] # <<>>})

\* what each of the first four methods yields for the text, <<>> when the
\* method does not apply
MethodOutputs(t) ==
    << IF contains(t, "\f") THEN form_feed_pages(t) ELSE <<>>,
       IF indicator_pages(t, 1) # None THEN indicator_pages(t, 1)[1] ELSE <<>>,
       IF structure_pages(t, 1) # None THEN structure_pages(t, 1)[1] ELSE <<>>,
       content_based_page_splitting(t) >>

\* the output of the first method with more than one non-empty segment, that
\* of the character budget method if there is none
FirstQualifying(t, outs) ==
    IF \E k \in 1..4 : NonEmptySegments(outs[k]) > 1
    THEN outs[Min({k \in 1..4 : NonEmptySegments(outs[k]) > 1})]
    ELSE character_based_splitting(t)

\* C14: intelligent_page_splitting returns the output of the first method, in
\* the order form feed, page indicator, structural marker, content density,
\* whose output has more than one non-empty segment, and the output of the
\* character budget method if no method has one; a method that yields a single
\* non-empty segment is skipped, the form feed split included.
C14_FirstQualifyingMethod ==
    SplitReturned =>
        frame.ret[1] = FirstQualifying(frame.full_text, MethodOutputs(frame.full_text))

RECURSIVE InOrder(_, _, _, _)
\* the segments k.. occur in the text from index from on, one after the other
InOrder(t, ps, k, from) ==
    \/ k > Len(ps)
    \/ \E p \in from..(Len(t) - Len(ps[k]) + 1) :
           /\ SubSeq(t, p, p + Len(ps[k]) - 1) = ps[k]
           /\ InOrder(t, ps, k + 1, p + Len(ps[k]))

\* C15: for a non-blank input every segment intelligent_page_splitting
\* returns is non-empty and trimmed, and the segments occur in the input in
\* the order in which they are returned.
C15_SegmentsTrimmedInOrder ==
    (SplitReturned /\ Trim(frame.full_text) # <<>>) =>
        /\ \A i \in 1..Len(frame.ret[1]) :
               /\ frame.ret[1][i] # <<>>
               /\ frame.ret[1][i][1] \notin WS
               /\ frame.ret[1][i][Len(frame.ret[1][i])] \notin WS
        /\ InOrder(frame.full_text, frame.ret[1], 1, 1)

\* the trimmed non-blank pieces between the form feeds of the text
NonBlankPieces(t) ==
    SelectSeq([i \in 1..Len(Split(t, "\f")) |-> Trim(Split(t, "\f")[i])],
              LAMBDA piece : piece # <<>>)

\* C16: for a text with form feeds and at least two non-blank pieces between
\* them, intelligent_page_splitting returns exactly the trimmed non-blank
\* pieces in order; "A\x0CB\x0CC" yields ["A", "B", "C"].
C16_FormFeedPieces ==
    SplitReturned =>
        /\ (contains(frame.full_text, "\f") /\ Len(NonBlankPieces(frame.full_text)) >= 2) =>
               frame.ret[1] = NonBlankPieces(frame.full_text)
        /\ frame.full_text = <<"A", "\f", "B", "\f", "C">> =>
               frame.ret[1] = << <<"A">>, <<"B">>, <<"C">> >>

\* witness of C16: the call on "A\x0CB\x0CC" has returned ["A", "B", "C"]
C16_Witness ==
    /\ frame.full_text = <<"A", "\f", "B", "\f", "C">>
    /\ frame.ret = Some(<< <<"A">>, <<"B">>, <<"C">> >>)

(* ------------------ claims: character_based_splitting ----------------- *)

\* an iteration of the loop of character_based_splitting is about to run
InLoop ==
    /\ ~frame.returned /\ ~frame.panicked
    /\ frame.current_pos < ByteLen(frame.text)

\* C17: character_based_splitting terminates on every text: every iteration
\* of its loop completes and leaves the cursor strictly further than it found
\* it, so that the cursor reaches the end of the text.
C17_CursorAdvances ==
    [][InLoop => (~frame'.panicked /\ frame'.current_pos > frame.current_pos)]_vars

\* C18: no segment of character_based_splitting is longer than 4000
\* characters, and every boundary lies at most 4000 characters after the
\* start of its segment.
C18_PageAtMostMax ==
    [][/\ frame'.current_pos - frame.current_pos <= max_chars_per_page
       /\ \A i \in 1..Len(frame'.pages) :
              /\ Len(frame'.pages[i]) <= max_chars_per_page
              /\ ByteLen(frame'.pages[i]) <= max_chars_per_page]_vars

\* witness of C18: a text of more than 4000 characters has been split, and a
\* page of 3000 characters, cut at a paragraph break, is among the pages
C18_Witness ==
    /\ frame.returned
    /\ Len(frame.text) > max_chars_per_page
    /\ Len(frame.pages) >= 2
    /\ Len(frame.pages[1]) = target_chars_per_page + paragraph_window

(* ------------------- claims: is_likely_readable_text ------------------ *)

\* the characters of s that are ASCII letters or digits, white space, or one
\* of . , ! ? ; : " ' ( ) -
ReadableCount(s) ==
    Cardinality({i \in 1..Len(s) :
                     s[i] \in Letters \cup Digits \cup WS
                              \cup {".", ",", "!", "?", ";", ":", "\"", "'", "(", ")", "-"}})

\* C19: is_likely_readable_text(s) is true iff s has at least 2 characters and
\* strictly more than 70% of its characters are ASCII alphanumeric, white
\* space or one of . , ! ? ; : " ' ( ) -: "Hello, World!" is accepted; ten
\* control characters, a string of fewer than 2 characters and a string with
\* exactly 70% such characters are rejected.
C19_ReadableIffSeventyPercent ==
    frame.ret # None =>
        /\ frame.ret[1] <=> (Len(frame.text) >= 2
                             /\ 10 * ReadableCount(frame.text) > 7 * Len(frame.text))
        /\ frame.text = HelloWorld => frame.ret[1]
        /\ frame.text = Fill("U+0001", 10) => ~frame.ret[1]
        /\ Len(frame.text) < 2 => ~frame.ret[1]
        /\ 10 * ReadableCount(frame.text) = 7 * Len(frame.text) => ~frame.ret[1]

(* -------------------- claims: clean_pdf_text_content ------------------ *)

\* the character an escaped character stands for
Unescaped(c) ==
    CASE c = "n" -> "\n"
      [] c = "r" -> "\r"
      [] c = "t" -> "\t"
      [] OTHER -> c

RECURSIVE Decode(_, _)
\* the reference decoder: the literal is read from left to right from index i
\* on, a backslash and the character after it make one escape
Decode(s, i) ==
    IF i > Len(s) THEN <<>>
    ELSE IF s[i] = "\\" /\ i < Len(s)
         THEN <<Unescaped(s[i + 1])>> \o Decode(s, i + 2)
         ELSE <<s[i]>> \o Decode(s, i + 1)

\* C20: clean_pdf_text_content decodes the escapes \( \) \\ \n \r \t of a
\* literal to the characters they stand for: its result is that of the
\* left-to-right reference decoder (trimmed, as the function trims); an
\* escaped backslash followed by the letter n gives a backslash followed by n;
\* and no backslash is left in the result of a literal without an escaped
\* backslash.
C20_EscapesDecoded ==
    frame.ret # None =>
        /\ frame.ret[1] = Trim(Decode(frame.text, 1))
        /\ frame.text = <<"\\", "\\", "n">> => frame.ret[1] = <<"\\", "n">>
        /\ (\A i \in 1..(Len(frame.text) - 1) :
                ~(frame.text[i] = "\\" /\ frame.text[i + 1] = "\\"))
           => \A i \in 1..Len(frame.ret[1]) : frame.ret[1][i] # "\\"

(* ---------------------- claims: MetaInfContainer ---------------------- *)

ContainerReturnedOk == frame.ret # None /\ frame.ret[1].kind = "Ok"

\* the rootfile elements of the document, in document order
RootfileElements ==
    SelectSeq(frame.events,
              LAMBDA e : e.kind = "Ok" /\ e.event = "StartElement"
                             /\ e.name.local_name = "rootfile")

\* the values of the attributes of element e called n
AttributeValues(e, n) ==
    {e.attributes[i].value : i \in {k \in 1..Len(e.attributes) :
                                        e.attributes[k].name.local_name = n}}

\* C21: the container returned has one RootFile per rootfile element, in
\* document order; its media_type is the value of the element's media-type
\* attribute, "application/oebps-package+xml" if the element has none; its
\* full_path is the path given by the element's full-path attribute, the empty
\* path if the element has none.
C21_OneRootFilePerElement ==
    ContainerReturnedOk =>
        /\ Len(frame.ret[1].v.rootfiles) = Len(RootfileElements)
        /\ \A i \in 1..Len(RootfileElements) :
               /\ IF AttributeValues(RootfileElements[i], "media-type") = {}
                  THEN frame.ret[1].v.rootfiles[i].media_type = "application/oebps-package+xml"
                  ELSE frame.ret[1].v.rootfiles[i].media_type
                           \in AttributeValues(RootfileElements[i], "media-type")
               /\ IF AttributeValues(RootfileElements[i], "full-path") = {}
                  THEN frame.ret[1].v.rootfiles[i].full_path = [path |-> ""]
                  ELSE frame.ret[1].v.rootfiles[i].full_path
                           \in {[path |-> v] : v \in AttributeValues(RootfileElements[i], "full-path")}

\* a document with an element that is no rootfile and two rootfile elements,
\* the first without media-type and the second without full-path
C21_Witness ==
    /\ ContainerReturnedOk
    /\ Len(frame.events) = 3
    /\ frame.events[1].name.local_name = "rootfiles"
    /\ Len(frame.ret[1].v.rootfiles) = 2
    /\ frame.ret[1].v.rootfiles[1] =
           [media_type |-> "application/oebps-package+xml", full_path |-> [path |-> "b.opf"]]
    /\ frame.ret[1].v.rootfiles[2] =
           [media_type |-> "text/plain", full_path |-> [path |-> ""]]

(* ------------------ claims: detect_chapters, page by page ------------- *)

\* the step is an iteration of the loop over pages, on page page_idx
PageStep == pc = "scan" /\ page_idx' = page_idx + 1

\* the lines of the cleaned page p (0-based)
CleanedLines(p) == Lines(clean(pages[p + 1]))

\* chs is old with one more chapter at its end
OneAppended(old, chs) ==
    Len(chs) = Len(old) + 1 /\ SubSeq(chs, 1, Len(old)) = old

\* C22: when a heading is found on page p while a chapter is open, the open
\* chapter is appended to the output, with page_end = p - 1, iff its content
\* is at least min_chapter_length long, and is dropped otherwise; in both
\* cases the chapter opened has start_page = p, the trimmed matched line as
\* its title and the lines after the matched line as its content.
C22_HeadingFinalizesOpenChapter ==
    [][(PageStep /\ current_chapter # None) =>
           \E lines \in {CleanedLines(page_idx)} :
           \E hits \in {{l \in 1..Len(lines) : l <= HeadLines /\ is_match(lines[l])}} :
               hits # {} =>
                   /\ IF Len(current_chapter[1].content) >= mcl
                      THEN /\ OneAppended(chapters, chapters')
                           /\ chapters'[Len(chapters')].title = current_chapter[1].title
                           /\ chapters'[Len(chapters')].page_start = current_chapter[1].start_page
                           /\ chapters'[Len(chapters')].page_end = page_idx - 1
                      ELSE chapters' = chapters
                   /\ current_chapter' =
                          Some([title |-> Trim(lines[Min(hits)]),
                                content |-> Join(SubSeq(lines, Min(hits) + 1, Len(lines)), <<"\n">>),
                                start_page |-> page_idx])]_vars

\* three pages with a heading each have been scanned: the chapter of the first
\* was long enough and is in the output, the chapter of the second was not
C22_Witness ==
    /\ pc = "scan"
    /\ page_idx = 3
    /\ mcl = 2
    /\ \A i \in 1..3 : HasHeading(pages[i])
    /\ Len(chapters) = 1
    /\ chapters[1].page_start = 0
    /\ chapters[1].page_end = 0
    /\ current_chapter # None
    /\ current_chapter[1].start_page = 2

\* the step ends the scan: the last chapter is finalized and the list returned
ReturnStep == pc = "scan" /\ pc' = "detected"

\* no chapter has been pushed and the open chapter, if any, is too short
NoneSurvived ==
    /\ chapters = <<>>
    /\ current_chapter # None => Len(current_chapter[1].content) < mcl

\* C23: the "Full Document" chapter is synthesized exactly when no chapter
\* survived the scan: the result is then that single chapter if the pages
\* joined by blank lines are at least min_chapter_length long and the empty
\* list otherwise; when a chapter survived, the result has no "Full Document".
C23_FullDocumentIffNoneSurvived ==
    [][ReturnStep =>
           IF NoneSurvived
           THEN IF Len(Join(pages, <<"\n", "\n">>)) >= mcl
                THEN Len(chapters') = 1 /\ IsFullDocument(chapters'[1])
                ELSE chapters' = <<>>
           ELSE /\ chapters' # <<>>
                /\ \A i \in 1..Len(chapters') : ~IsFullDocument(chapters'[i])]_vars

\* headings were found on both pages, both chapters were too short, and the
\* result is the "Full Document" chapter
C23_Witness ==
    /\ Returned
    /\ Len(pages) = 2
    /\ HasHeading(pages[1]) /\ HasHeading(pages[2])
    /\ mcl = 6
    /\ Len(chapters) = 1
    /\ IsFullDocument(chapters[1])

\* the content of the open chapter with the cleaned page p added to it
Grown(p) ==
    (IF current_chapter[1].content # <<>> THEN current_chapter[1].content \o <<"\n">> ELSE <<>>)
        \o clean(pages[p + 1])

\* the lines of text s that match the heading pattern
MatchingLines(s) == {l \in 1..Len(Lines(s)) : is_match(Lines(s)[l])}

\* C24: only the first 10 lines of the cleaned page are examined and only the
\* first matching line acts.  A page with no match among its first 10 lines
\* opens and finalizes nothing: it is added to the open chapter, if any, which
\* ends only by a forced split on this page.  On a page with a match the
\* chapter opened has the first matching line as its title and every later
\* line, matching or not, as its content.
C24_FirstTenLinesFirstMatch ==
    [][PageStep =>
           \E lines \in {CleanedLines(page_idx)} :
           \E hits \in {{l \in 1..Len(lines) : l <= HeadLines /\ is_match(lines[l])}} :
               IF hits # {}
               THEN current_chapter' =
                        Some([title |-> Trim(lines[Min(hits)]),
                              content |-> Join(SubSeq(lines, Min(hits) + 1, Len(lines)), <<"\n">>),
                              start_page |-> page_idx])
               ELSE IF current_chapter = None
                    THEN chapters' = chapters /\ current_chapter' = None
                    ELSE \E grown \in {Grown(page_idx)} :
                         \/ /\ chapters' = chapters
                            /\ current_chapter' =
                                   Some([current_chapter[1] EXCEPT !.content = grown])
                         \/ /\ mppc > 0
                            /\ OneAppended(chapters, chapters')
                            /\ chapters'[Len(chapters')].content = clean(grown)
                            /\ chapters'[Len(chapters')].page_start = current_chapter[1].start_page
                            /\ chapters'[Len(chapters')].page_end = page_idx
                            /\ current_chapter'[1].content = <<>>
                            /\ current_chapter'[1].start_page = page_idx + 1]_vars

\* a page with two matching lines and a page with a matching line on line
\* eleven have been scanned: one chapter is open, it began on the first page at
\* the first matching line, and the two other matching lines are in its content
C24_Witness ==
    /\ pc = "scan"
    /\ page_idx = 2
    /\ Cardinality(MatchingLines(pages[1])) = 2
    /\ MatchingLines(pages[2]) = {HeadLines + 1}
    /\ chapters = <<>>
    /\ current_chapter # None
    /\ current_chapter[1].title = <<"H">>
    /\ current_chapter[1].start_page = 0
    /\ Cardinality(MatchingLines(current_chapter[1].content)) = 2

(* ---------- claims: character_based_splitting, break points ----------- *)

\* the target offset of the iteration about to run
Target == frame.current_pos + target_chars_per_page

\* the paragraph breaks (two consecutive newlines) that begin within 500
\* characters of the target offset
BreaksNearTarget ==
    {c \in (Target - paragraph_window)..(Target + paragraph_window) :
         /\ c + 2 <= Len(frame.text)
         /\ frame.text[c + 1] = "\n"
         /\ frame.text[c + 2] = "\n"}

\* the distance of position c from the target offset
FromTarget(c) == IF c >= Target THEN c - Target ELSE Target - c

\* C25: when the text goes on beyond the target offset and a paragraph break
\* lies within 500 characters of it, the iteration puts the boundary at the
\* paragraph break nearest to the target offset, the break at the target
\* offset itself included: no sentence end is then looked for.
C25_BoundaryAtNearestParagraphBreak ==
    [][(InLoop /\ Target < ByteLen(frame.text) /\ BreaksNearTarget # {} /\ ~frame'.panicked) =>
           /\ frame'.current_pos \in BreaksNearTarget
           /\ \A c \in BreaksNearTarget : FromTarget(frame'.current_pos) <= FromTarget(c)]_vars

(* ------------------ claims: split_by_structural_markers --------------- *)

MarkersReturned == frame.ret # None

\* the characters of text s
Chars(s) == {s[i] : i \in 1..Len(s)}

\* the text from the start of match j to the start of the next match, to the
\* end of the text for the last match
MarkerSpan(j) ==
    SubSeq(frame.text, frame.matches[j].start,
           IF j < Len(frame.matches) THEN frame.matches[j + 1].start - 1 ELSE Len(frame.text))

\* C29: given k >= 3 matches, split_by_structural_markers returns k segments:
\* segment j < k is the trimmed text from the start of match j to the start of
\* match j + 1, the last one the trimmed text from the start of match k to the
\* end of the text; the text before the first match is in no segment.
C29_SegmentsBetweenMatchStarts ==
    (MarkersReturned /\ Len(frame.matches) >= 3) =>
        /\ Len(frame.ret[1]) = Len(frame.matches)
        /\ \A j \in 1..Len(frame.matches) : frame.ret[1][j] = Trim(MarkerSpan(j))
        /\ \A j \in 1..Len(frame.ret[1]) :
               Chars(frame.ret[1][j]) \cap Chars(SubSeq(frame.text, 1, frame.matches[1].start - 1))
                   \subseteq WS

\* three matches after a prefix of words: three segments, the first beginning
\* with the first marker and the last ending with the text
C29_Witness ==
    /\ MarkersReturned
    /\ Len(frame.matches) = 3
    /\ frame.matches[1].start = 5
    /\ frame.text[1] = "z"
    /\ Len(frame.ret[1]) = 3
    /\ frame.ret[1][1][1] \in {"C", "c"}
    /\ frame.ret[1][3][Len(frame.ret[1][3])] = "b"

(* ------------------- claims: detect_chapters, ranges ------------------ *)

\* C26: the page ranges of the chapters returned are ordered and disjoint:
\* every chapter ends before the page on which the next one starts.
C26_RangesOrdered ==
    Returned =>
        \A i, j \in 1..Len(chapters) :
            i < j => chapters[i].page_end < chapters[j].page_start

\* witness of C26: with a page limit of one page, a chapter ended by the
\* heading of the next page, a chapter ended by a forced split and the chapter
\* reopened after it, each beginning on the page after the one before it ends
C26_Witness ==
    /\ Returned
    /\ mppc = 1
    /\ Len(chapters) >= 3
    /\ \E i \in 1..(Len(chapters) - 2) :
           /\ chapters[i].title = <<"H">>
           /\ chapters[i + 1].title = PartTitle(<<"H">>, i + 1)
           /\ chapters[i + 1].page_start = chapters[i].page_end + 1
           /\ chapters[i + 2].page_start = chapters[i + 1].page_end + 1
           /\ chapters[i + 1].page_end > chapters[i + 1].page_start

\* C27: between the iterations of the loop the open chapter's start_page is at
\* most the index of the page about to be scanned, so page_idx - start_page,
\* evaluated in that iteration on this chapter or on one opened on that very
\* page, does not underflow; after a forced split on the last page start_page
\* equals the number of pages and no iteration follows.
C27_StartPageAtMostPageIdx ==
    (pc = "scan" /\ current_chapter # None) => current_chapter[1].start_page <= page_idx

\* witness of C27: four pages and a limit of one page; the chapter was split
\* on the second page, reopened, checked on the third page and split again on
\* the last page
C27_Witness ==
    /\ pc = "scan"
    /\ mppc = 1
    /\ Len(pages) = 4
    /\ page_idx = 4
    /\ Len(chapters) = 2
    /\ chapters[1].page_end = 1
    /\ chapters[2].page_start = 2
    /\ chapters[2].page_end = 3
    /\ current_chapter # None
    /\ current_chapter[1].start_page = 4

\* the pages (0-based) on which a heading is found
HeadingPages == {p \in 0..(Len(pages) - 1) : HasHeading(pages[p + 1])}

\* C28: a page with no heading, scanned while no chapter is open, leaves
\* chapters and current_chapter as they are; so no chapter other than "Full
\* Document" begins before the first page with a heading, and without such a
\* page there is no other chapter at all.
C28_PagesBeforeFirstHeading ==
    [][/\ (PageStep /\ current_chapter = None /\ ~HasHeading(pages[page_idx + 1])) =>
              (chapters' = chapters /\ current_chapter' = current_chapter)
       /\ ReturnStep =>
              \E hp \in {HeadingPages} :
                  \A i \in 1..Len(chapters') :
                      \/ IsFullDocument(chapters'[i])
                      \/ hp # {} /\ chapters'[i].page_start >= Min(hp)]_vars

\* witness of C28: two pages without a heading, then a page with one; the only
\* chapter returned is that of the heading and covers the third page alone
C28_Witness ==
    /\ Returned
    /\ Len(pages) = 3
    /\ HeadingPages = {2}
    /\ Len(chapters) = 1
    /\ chapters[1].title = <<"H">>
    /\ chapters[1].page_start = 2
    /\ chapters[1].page_end = 2

(* ------------------- claims: parse_pdf_content_stream ----------------- *)

ParseReturned == frame.ret # None

\* the line is an array-form show-text operation: [ ... ] TJ
IsArrayForm(line) ==
    Len(line) >= 5 /\ line[1] = "[" /\ SubSeq(line, Len(line) - 3, Len(line)) = <<"]", " ", "T", "J">>

\* the line is a simple-form show-text operation: ( ... ) Tj
IsSimpleForm(line) ==
    Len(line) >= 5 /\ line[1] = "(" /\ SubSeq(line, Len(line) - 3, Len(line)) = <<")", " ", "T", "j">>

\* what a show-text operation contributes: the unescaped text between its
\* delimiters and one space
Shown(line) ==
    IF clean_pdf_text_content(SubSeq(line, 2, Len(line) - 4)) = <<>> THEN <<>>
    ELSE clean_pdf_text_content(SubSeq(line, 2, Len(line) - 4)) \o <<" ">>

RECURSIVE ArrayFormsFirst(_, _, _, _, _)
\* the text expected of the operations lines[k..]: within a text block (inside)
\* what the array forms show (arr), then what the simple forms show (simple),
\* each in stream order; the blocks in stream order; nothing outside a block
ArrayFormsFirst(lines, k, inside, arr, simple) ==
    IF k > Len(lines) THEN <<>>
    ELSE IF lines[k] = <<"B", "T">> /\ ~inside
         THEN ArrayFormsFirst(lines, k + 1, TRUE, <<>>, <<>>)
    ELSE IF lines[k] = <<"E", "T">> /\ inside
         THEN arr \o simple \o ArrayFormsFirst(lines, k + 1, FALSE, <<>>, <<>>)
    ELSE IF inside /\ IsArrayForm(lines[k])
         THEN ArrayFormsFirst(lines, k + 1, inside, arr \o Shown(lines[k]), simple)
    ELSE IF inside /\ IsSimpleForm(lines[k])
         THEN ArrayFormsFirst(lines, k + 1, inside, arr, simple \o Shown(lines[k]))
    ELSE ArrayFormsFirst(lines, k + 1, inside, arr, simple)

\* C30: the text returned is, text block by text block in stream order, the
\* text of the block's array-form (TJ) operators in their order followed by
\* the text of its simple-form (Tj) operators in their order, each text
\* followed by one space, whatever the order of the two forms in the block.
C30_ArrayFormsBeforeSimpleForms ==
    ParseReturned =>
        frame.ret[1] = Ok(ArrayFormsFirst(Lines(frame.content), 1, FALSE, <<>>, <<>>))

\* a stream of two text blocks: in the first a simple form, an array form and
\* a simple form again, in the second a simple form before an array form
C30_Witness ==
    /\ ParseReturned
    /\ Lines(frame.content) =
           << <<"B", "T">>,
              <<"(", "d", ")", " ", "T", "j">>,
              <<"[", "(", "C", ")", "]", " ", "T", "J">>,
              <<"(", "e", "\\", ")", "f", ")", " ", "T", "j">>,
              <<"E", "T">>,
              <<"B", "T">>,
              <<"(", "z", ")", " ", "T", "j">>,
              <<"[", "(", "y", ")", "]", " ", "T", "J">>,
              <<"E", "T">> >>
    /\ frame.ret[1] =
           Ok(<<"(", "C", ")", " ", "d", " ", "e", ")", "f", " ",
                "(", "y", ")", " ", "z", " ">>)

====
